---- MODULE Spec2Model ----
(***************************************************************************)
(* AsyncFileLogger: a bounded queue filled by producer threads calling     *)
(* log(), drained by one worker thread that consults the rotation policy   *)
(* and writes to the current file; the destructor sets stopping, notifies  *)
(* the worker and joins it.                                                *)
(*                                                                         *)
(* EventLoop: a task queue filled by post(), drained by one loop thread    *)
(* running run(), stopped by stopLoop().                                   *)
(***************************************************************************)
EXTENDS Integers, Sequences, FiniteSets, TLC

\* ---------------------------------------------------------------- bounds
\* total number of log() calls made by all producers together
MaxCalls == 3
\* capacity of the queue (10000 in the source, scaled down)
maxQueueSize == 2
\* last second the clock can show
MaxTime == 1
\* rotation interval in seconds (5 in main, scaled down)
Interval == 1
\* how many times the shutdown sequence is run
MaxShutdownRuns == 2
\* total number of log() calls in the runs checked for termination
MaxFairCalls == 2
\* K: the count-based rotation policy asks for a new file after every K items
RotateEvery == 2
\* total number of log() calls in the runs with the count-based policy
MaxCountCalls == 5
\* number of tasks posted to the EventLoop
MaxTasks == 3
\* how many times stopLoop() is called
MaxStopCalls == 2
\* number of EventLoops in the ThreadPool (4 in main, scaled down)
NumLoops == 2
\* number of tasks each thread posts to the ThreadPool
MaxPoolPosts == 2
\* Scheduler: meeting times are 0..MaxHour
MaxHour == 2
\* Scheduler: number of meetings created
MaxMeetings == 2
\* TextEditor: number of insert/deleteText/replace calls
MaxEdits == 2
\* TextEditor: positions passed to the commands are 0..MaxPos
MaxPos == 2
\* TextEditor: lengths passed to deleteText and replace are 0..MaxLen
MaxLen == 1
\* TaskScheduler: number of schedule/scheduleAfter calls
MaxSched == 2
\* TaskScheduler: number of schedule/scheduleAfter calls in the runs checked
\* for termination
MaxFairSched == 1
\* TaskScheduler: steady_clock runs from 0 to MaxClock
MaxClock == 1
\* SimpleLeaderboard: number of addScore calls
MaxAdds == 4
\* SimpleLeaderboard: the deltas passed to addScore are -MaxDelta..MaxDelta
MaxDelta == 1
\* TicTacToe: Game::boardSize, read from the input
boardSize == 3
\* RoundRobinScheduler sched(4)
timeQuantum == 4
\* the number of processes main() adds
NumProcs == 5

Producers == {"t1", "t2"}
Threads == Producers \cup {"main", "worker"}
NoItem == <<>>
\* the threads that call ThreadPool::post()
Posters == {"u1", "u2"}

VARIABLES
    pcMain,        \* position of the thread that constructs and destroys the logger
    shutdownRuns,  \* completed runs of the shutdown sequence
    mtx,           \* owner of queue_mtx, or "free"
    stopping,      \* AsyncFileLogger::stopping
    q,             \* AsyncFileLogger::q
    wpc,           \* position of the worker thread in run()
    it,            \* the Item the worker has dequeued and not yet written
    isOpen,        \* outFile.is_open()
    currentFile,   \* AsyncFileLogger::currentFile
    clock,         \* system_clock, in seconds, as last read
    lastRotation,  \* TimeBasedRotationPolicy::lastRotation
    joinable,      \* worker.joinable()
    threw,         \* an exception escaped (std::system_error of join)
    ppc,           \* position of each producer inside log()
    sent,          \* number of log() calls each producer has started
    callLimit,     \* number of log() calls the producers make in this run
    calls,         \* history: messages in the order log() examined them
    accepted,      \* history: messages pushed to q, in push order
    dropped,       \* history: messages log() discarded
    acceptedAtStop,\* history: Len(accepted) when stopping was first set, -1 before
    written,       \* history: lines that reached a file, with the file, in write order
    lost,          \* history: messages streamed to outFile while it was not open
    pendingAtStop, \* history: items queued or in flight when stopping was first set
    asleepAtStop,  \* history: the worker was blocked in wait() when stopping was first set
    ioBy,          \* history: <<thread, operation, during construction>>
    sentAtShutdown,\* history: sent when the shutdown sequence first returned
    diag,          \* what the logger has written to a diagnostic channel
    droppedCount,  \* what the logger has counted as dropped
    itemsSinceRotation, \* count-based policy: items seen since the last rotation
    rotations,     \* history: rotateNow() calls made for the item in hand
    stop,          \* EventLoop::stop
    tasks,         \* EventLoop::tasks
    loopMtx,       \* owner of EventLoop::mtx, or "free"
    lpc,           \* position of the loop thread in EventLoop::run()
    task,          \* the task run() has taken from the queue
    loopJoinable,  \* EventLoop thread joinable()
    postPc,        \* position of the posting thread inside post()
    stopPc,        \* position of the stopping thread inside stopLoop()
    stopCalls,     \* completed calls of stopLoop()
    executed,      \* history: tasks run, in order
    postedBeforeStop, \* history: tasks queued when stopLoop() was first called, -1 before
    nextLoop,      \* ThreadPool::nextLoop
    loopTasks,     \* ThreadPool: the task queue of each loop
    poolPc,        \* position of each posting thread inside ThreadPool::post()
    poolIdx,       \* the value of nextLoop each thread read to pick the loop
    poolRead,      \* the value of nextLoop each thread read to advance it
    poolSent,      \* number of ThreadPool::post() calls each thread has started
    nextMeetingId, \* Scheduler::nextMeetingId
    users,         \* Scheduler::users (the ids)
    calendars,     \* Scheduler::calendars
    meetings,      \* Scheduler::meetings
    lastOp,        \* the last Scheduler call: <<method, result>>
    content,       \* TextEditor::content
    undoStack,     \* TextEditor::undoStack, top last
    redoStack,     \* TextEditor::redoStack, top last
    editCount,     \* number of insert/deleteText/replace calls made
    editLog,       \* history: the last TextEditor calls, <<method, result>> each
    undoSnap,      \* history: the content before and after each command of undoStack
    redoSnap,      \* history: the content before and after each command of redoStack
    rrPc,          \* main of the scheduler demo: "adding", in run() "loop", "done"
    rrAdded,       \* the <<burstTime, arrivalTime>> of the processes added, by pid
    currentTime,   \* RoundRobinScheduler::currentTime
    readyQ,        \* RoundRobinScheduler::readyQ
    processes,     \* RoundRobinScheduler::processes
    futureArrivals,\* RoundRobinScheduler::futureArrivals
    timeline,      \* RoundRobinScheduler::timeline
    tsBuild,       \* TaskScheduler: which scheduleAt is built, "notifyOne" or "wakeAll"
    stopFlag,      \* TaskScheduler::stopFlag
    taskQueue,     \* TaskScheduler::taskQueue
    tsClock,       \* std::chrono::steady_clock
    tsPc,          \* position of each worker in workerLoop()
    tsDeadline,    \* the time point each worker passed to wait_until
    tsTask,        \* workerLoop: currentTask, of each worker
    schedPc,       \* position of the thread that schedules and destroys
    schedTime,     \* scheduleAt: time
    schedWakeAll,  \* scheduleAt: wakeAll
    tsScheduled,   \* number of tasks pushed
    schedLimit,    \* number of schedule/scheduleAfter calls made in this run
    tsJoined,      \* number of workers the destructor has joined
    tsLast,        \* history: the task popped last, with now at the pop
    scoreMap,      \* SimpleLeaderboard::scoreMap
    playerToScore, \* SimpleLeaderboard::playerToScore
    lbCalls,       \* number of addScore calls made
    board,         \* Board::board
    players,       \* Game::players
    isWinner,      \* Game::isWinner
    winnerName,    \* Game::winnerName
    tttPc          \* startGame(): in the "loop" or "returned"

vars == <<pcMain, shutdownRuns, mtx, stopping, q, wpc, it, isOpen, currentFile,
          clock, lastRotation, joinable, threw, ppc, sent, callLimit, calls,
          accepted, dropped, acceptedAtStop, pendingAtStop, asleepAtStop,
          written, lost, ioBy, sentAtShutdown, diag, droppedCount,
          itemsSinceRotation, rotations, stop, tasks, loopMtx, lpc, task,
          loopJoinable, postPc, stopPc, stopCalls, executed, postedBeforeStop,
          nextLoop, loopTasks, poolPc, poolIdx, poolRead, poolSent,
          nextMeetingId, users, calendars, meetings, lastOp,
          content, undoStack, redoStack, editCount, editLog, undoSnap,
          redoSnap,
          rrPc, rrAdded, currentTime, readyQ, processes, futureArrivals,
          timeline, tsBuild, stopFlag, taskQueue, tsClock, tsPc,
          tsDeadline, tsTask, schedPc, schedTime, schedWakeAll, tsScheduled,
          schedLimit, tsJoined, tsLast, scoreMap, playerToScore, lbCalls,
          board, players, isWinner, winnerName, tttPc>>

mainVars == <<pcMain, shutdownRuns, joinable, threw>>
fileVars == <<isOpen, currentFile, clock, lastRotation>>
prodVars == <<ppc, sent>>
histVars == <<calls, accepted, dropped, written, lost>>
stopVars == <<acceptedAtStop, pendingAtStop, asleepAtStop, sentAtShutdown>>
countVars == <<itemsSinceRotation>>
loopVars == <<stop, tasks, loopMtx, lpc, task, loopJoinable, postPc, stopPc,
              stopCalls, executed, postedBeforeStop>>
loggerVars == <<pcMain, shutdownRuns, mtx, stopping, q, wpc, it, isOpen,
                currentFile, clock, lastRotation, joinable, threw, ppc, sent,
                callLimit, calls, accepted, dropped, written, lost, ioBy,
                stopVars, diag, droppedCount, countVars, rotations>>
poolVars == <<nextLoop, loopTasks, poolPc, poolIdx, poolRead, poolSent>>
meetVars == <<nextMeetingId, users, calendars, meetings, lastOp>>
editVars == <<content, undoStack, redoStack, editCount, editLog, undoSnap,
              redoSnap>>
rrVars == <<rrPc, rrAdded, currentTime, readyQ, processes, futureArrivals,
            timeline>>
tsWorkerVars == <<tsPc, tsDeadline, tsTask>>
tsClientVars == <<schedPc, schedTime, schedWakeAll, tsScheduled, schedLimit,
                  tsJoined>>
tsVars == <<tsBuild, stopFlag, taskQueue, tsClock, tsWorkerVars, tsClientVars,
            tsLast>>
\* the programs added after the RoundRobinScheduler
lbVars == <<scoreMap, playerToScore, lbCalls>>
tttVars == <<board, players, isWinner, winnerName, tttPc>>
moreVars == <<tsVars, lbVars, tttVars>>
\* what neither the logger nor the EventLoop changes
restVars == <<poolVars, meetVars, editVars, rrVars, moreVars>>
\* what the ThreadPool does not change
outsidePool == <<loggerVars, loopVars, meetVars, editVars, rrVars, moreVars>>
\* what the Scheduler does not change
outsideMeet == <<loggerVars, loopVars, poolVars, editVars, rrVars, moreVars>>
\* what the TextEditor does not change
outsideEdit == <<loggerVars, loopVars, poolVars, meetVars, rrVars, moreVars>>
\* what the RoundRobinScheduler does not change
outsideRR == <<loggerVars, loopVars, poolVars, meetVars, editVars, moreVars>>
\* what the TaskScheduler does not change
outsideTS == <<loggerVars, loopVars, poolVars, meetVars, editVars, rrVars,
               lbVars, tttVars>>
\* what the SimpleLeaderboard does not change
outsideLB == <<loggerVars, loopVars, poolVars, meetVars, editVars, rrVars,
               tsVars, tttVars>>
\* what the TicTacToe Game does not change
outsideTTT == <<loggerVars, loopVars, poolVars, meetVars, editVars, rrVars,
                tsVars, lbVars>>
\* what no step of the logger changes
constVars == <<callLimit, diag, droppedCount, loopVars, restVars>>
\* what no step of the logger but rotateNow() and the write changes
fixedVars == <<constVars, rotations>>

\* ------------------------------------------------------------- helpers
Total(f) == f["t1"] + f["t2"]

\* std::chrono::system_clock::now(): time never goes back
Now == {t \in clock..(clock + 1) : t <= MaxTime}

\* the use of the sink or of the policy by a thread, and whether the
\* constructor was still running
Did(thread, op) == ioBy \cup {<<thread, op, pcMain = "ctor">>}

\* ------------------------------------------------------------------ Init
\* Game game = Game(2, boardSize); startGame() has set isWinner = true
TTTInit ==
    /\ board = [c \in (0..(boardSize - 1)) \X (0..(boardSize - 1)) |-> " "]
    /\ players = <<[name |-> "p1", piece |-> "X"], [name |-> "p2", piece |-> "O"]>>
    /\ isWinner = TRUE
    /\ winnerName = ""
    /\ tttPc = "loop"

\* SimpleLeaderboard lb;
LBInit ==
    /\ scoreMap = <<>>
    /\ playerToScore = <<>>
    /\ lbCalls = 0

\* TaskScheduler(size_t numThreads) : stopFlag(false), the workers started
TSInit ==
    /\ stopFlag = FALSE
    /\ taskQueue = {}
    /\ tsClock = 0
    /\ tsPc = [w \in {1, 2} |-> "start"]
    /\ tsDeadline = [w \in {1, 2} |-> 0]
    /\ tsTask = [w \in {1, 2} |-> [id |-> 0, time |-> 0]]
    /\ schedPc = "idle"
    /\ schedTime = 0
    /\ schedWakeAll = FALSE
    /\ tsScheduled = 0
    /\ tsJoined = 0
    /\ tsLast = [id |-> 0, time |-> 0, at |-> 0, least |-> TRUE]

\* RoundRobinScheduler(int quantum) : timeQuantum(quantum), currentTime(0) {}
RRInit ==
    /\ rrPc = "adding"
    /\ rrAdded = <<>>
    /\ currentTime = 0
    /\ readyQ = <<>>
    /\ processes = <<>>
    /\ futureArrivals = <<>>
    /\ timeline = <<>>

\* TextEditor() : content("") {}
EditInit ==
    /\ content = <<>>
    /\ undoStack = <<>>
    /\ redoStack = <<>>
    /\ editCount = 0
    /\ editLog = <<>>
    /\ undoSnap = <<>>
    /\ redoSnap = <<>>

\* Scheduler s;
MeetInit ==
    /\ nextMeetingId = 1
    /\ users = {}
    /\ calendars = <<>>
    /\ meetings = <<>>
    /\ lastOp = <<>>

\* ThreadPool(size_t numThreads) : nextLoop(0), one queue per loop
PoolInit ==
    /\ nextLoop = 0
    /\ loopTasks = [l \in 0..(NumLoops - 1) |-> <<>>]
    /\ poolPc = [t \in Posters |-> "idle"]
    /\ poolIdx = [t \in Posters |-> 0]
    /\ poolRead = [t \in Posters |-> 0]
    /\ poolSent = [t \in Posters |-> 0]

\* EventLoop() : stop(false) {}
LoopInit ==
    /\ stop = FALSE
    /\ tasks = <<>>
    /\ loopMtx = "free"
    /\ lpc = "notStarted"
    /\ task = 0
    /\ loopJoinable = FALSE
    /\ postPc = "idle"
    /\ stopPc = "idle"
    /\ stopCalls = 0
    /\ executed = <<>>
    /\ postedBeforeStop = -1

\* the state after the member initialisers: the worker thread has been
\* started, the constructor body has not run yet
InitWith(limit) ==
    /\ callLimit = limit
    /\ pcMain = "ctor"
    /\ shutdownRuns = 0
    /\ mtx = "free"
    /\ stopping = FALSE
    /\ q = <<>>
    /\ wpc = "start"
    /\ it = NoItem
    /\ isOpen = FALSE
    /\ currentFile = -1
    /\ clock = 0
    /\ lastRotation = 0
    /\ joinable = TRUE
    /\ threw = FALSE
    /\ ppc = [p \in Producers |-> "idle"]
    /\ sent = [p \in Producers |-> 0]
    /\ calls = <<>>
    /\ accepted = <<>>
    /\ dropped = <<>>
    /\ acceptedAtStop = -1
    /\ pendingAtStop = 0
    /\ asleepAtStop = FALSE
    /\ written = <<>>
    /\ lost = <<>>
    /\ ioBy = {}
    /\ sentAtShutdown = [p \in Producers |-> 0]
    /\ diag = <<>>
    /\ droppedCount = 0
    /\ itemsSinceRotation = 0
    /\ rotations = 0
    /\ LoopInit
    /\ PoolInit
    /\ MeetInit
    /\ EditInit
    /\ RRInit
    /\ TSInit
    /\ LBInit
    /\ TTTInit

\* scheduleAt as in part_001: it calls notify_one()
Init == InitWith(MaxCalls) /\ tsBuild = "notifyOne" /\ schedLimit = MaxSched

\* the same program with fewer log() calls
InitFair ==
    InitWith(MaxFairCalls) /\ tsBuild = "notifyOne" /\ schedLimit = MaxSched

\* the logger constructed with a count-based rotation policy
InitCount ==
    InitWith(MaxCountCalls) /\ tsBuild = "notifyOne" /\ schedLimit = MaxSched

\* the TaskScheduler with either of the repository's two versions of
\* scheduleAt: part_001 calls notify_one(), the readme's calls notify_all()
\* when the new task is the earliest
InitTS ==
    /\ InitWith(MaxCalls)
    /\ tsBuild \in {"notifyOne", "wakeAll"}
    /\ schedLimit = MaxSched

\* the same with fewer tasks
InitTSFair ==
    /\ InitWith(MaxCalls)
    /\ tsBuild \in {"notifyOne", "wakeAll"}
    /\ schedLimit = MaxFairSched

\* ------------------------------------------------- constructor (main thread)
\* currentFile = rotationPolicy->nextFileName(); outFile.open(currentFile, app)
Ctor ==
    /\ pcMain = "ctor"
    /\ \E now \in Now, ok \in BOOLEAN :
          /\ clock' = now
          /\ currentFile' = now
          /\ isOpen' = ok
    /\ ioBy' = Did("main", "nextFileName") \cup Did("main", "open")
    /\ pcMain' = "live"
    /\ UNCHANGED <<fixedVars, countVars, shutdownRuns, mtx, stopping, q, wpc, it, lastRotation,
                   joinable, threw, prodVars, histVars, stopVars>>

\* ------------------------------------------------------------ log()
\* std::lock_guard<std::mutex> lk(queue_mtx)
LogLock(p) ==
    /\ pcMain # "ctor"
    /\ ppc[p] = "idle"
    /\ Total(sent) < callLimit
    /\ mtx = "free"
    /\ mtx' = p
    /\ sent' = [sent EXCEPT ![p] = @ + 1]
    /\ ppc' = [ppc EXCEPT ![p] = "cs"]
    /\ UNCHANGED <<fixedVars, countVars, mainVars, stopping, q, wpc, it, fileVars, histVars,
                   stopVars, ioBy>>

\* log() with the capacity test written as q.size() > maxQueueSize
LogPushOffByOne(p) ==
    /\ ppc[p] = "cs"
    /\ mtx = p
    /\ LET msg == <<p, sent[p]>> IN
       /\ calls' = Append(calls, msg)
       /\ IF Len(q) > maxQueueSize
          THEN /\ dropped' = Append(dropped, msg)
               /\ mtx' = "free"
               /\ ppc' = [ppc EXCEPT ![p] = "idle"]
               /\ UNCHANGED <<q, accepted>>
          ELSE /\ q' = Append(q, msg)
               /\ accepted' = Append(accepted, msg)
               /\ ppc' = [ppc EXCEPT ![p] = "notify"]
               /\ UNCHANGED <<dropped, mtx>>
    /\ UNCHANGED <<fixedVars, countVars, mainVars, stopping, wpc, it, fileVars, sent, written, lost,
                   stopVars, ioBy>>

\* log() with the other overflow policy of its comment: pop the oldest item
LogPushDropOldest(p) ==
    /\ ppc[p] = "cs"
    /\ mtx = p
    /\ LET msg == <<p, sent[p]>> IN
       /\ calls' = Append(calls, msg)
       /\ accepted' = Append(accepted, msg)
       /\ IF Len(q) >= maxQueueSize
          THEN /\ dropped' = Append(dropped, Head(q))
               /\ q' = Append(Tail(q), msg)
          ELSE /\ q' = Append(q, msg)
               /\ UNCHANGED dropped
       /\ ppc' = [ppc EXCEPT ![p] = "notify"]
    /\ UNCHANGED <<fixedVars, countVars, mainVars, mtx, stopping, wpc, it, fileVars, sent, written,
                   lost, stopVars, ioBy>>

\* log() with the blocking policy of its comment: wait for space in the queue
LogPushBlocking(p) ==
    /\ ppc[p] = "cs"
    /\ mtx = p
    /\ Len(q) < maxQueueSize
    /\ LET msg == <<p, sent[p]>> IN
       /\ calls' = Append(calls, msg)
       /\ q' = Append(q, msg)
       /\ accepted' = Append(accepted, msg)
       /\ ppc' = [ppc EXCEPT ![p] = "notify"]
    /\ UNCHANGED <<fixedVars, countVars, mainVars, mtx, stopping, wpc, it, fileVars, sent, dropped,
                   written, lost, stopVars, ioBy>>

\* log() that writes the message to the file itself when the queue is full
LogPushWriteThrough(p) ==
    /\ ppc[p] = "cs"
    /\ mtx = p
    /\ LET msg == <<p, sent[p]>> IN
       /\ calls' = Append(calls, msg)
       /\ IF Len(q) >= maxQueueSize
          THEN /\ IF isOpen
                  THEN /\ written' = Append(written, [msg |-> msg, file |-> currentFile])
                       /\ UNCHANGED lost
                  ELSE /\ lost' = Append(lost, msg)
                       /\ UNCHANGED written
               /\ ioBy' = Did(p, "write")
               /\ mtx' = "free"
               /\ ppc' = [ppc EXCEPT ![p] = "idle"]
               /\ UNCHANGED <<q, accepted>>
          ELSE /\ q' = Append(q, msg)
               /\ accepted' = Append(accepted, msg)
               /\ ppc' = [ppc EXCEPT ![p] = "notify"]
               /\ UNCHANGED <<mtx, written, lost, ioBy>>
    /\ UNCHANGED <<fixedVars, countVars, mainVars, stopping, wpc, it, fileVars, sent, dropped, stopVars>>

\* if (q.size() >= maxQueueSize) return;  q.push(Item{msg, now})
LogPush(p) ==
    /\ ppc[p] = "cs"
    /\ mtx = p
    /\ LET msg == <<p, sent[p]>> IN
       /\ calls' = Append(calls, msg)
       /\ IF Len(q) >= maxQueueSize
          THEN /\ dropped' = Append(dropped, msg)
               /\ mtx' = "free"
               /\ ppc' = [ppc EXCEPT ![p] = "idle"]
               /\ UNCHANGED <<q, accepted>>
          ELSE /\ q' = Append(q, msg)
               /\ accepted' = Append(accepted, msg)
               /\ ppc' = [ppc EXCEPT ![p] = "notify"]
               /\ UNCHANGED <<dropped, mtx>>
    /\ UNCHANGED <<fixedVars, countVars, mainVars, stopping, wpc, it, fileVars, sent, written, lost,
                   stopVars, ioBy>>

\* log() returning after the push without notify_one()
LogNotifyMissing(p) ==
    /\ ppc[p] = "notify"
    /\ mtx = p
    /\ mtx' = "free"
    /\ ppc' = [ppc EXCEPT ![p] = "idle"]
    /\ UNCHANGED <<fixedVars, countVars, mainVars, stopping, q, wpc, it, fileVars,
                   sent, histVars, stopVars, ioBy>>

\* queue_cv.notify_one(); the lock_guard unlocks on return
LogNotify(p) ==
    /\ ppc[p] = "notify"
    /\ mtx = p
    /\ wpc' = IF wpc = "sleeping" THEN "woken" ELSE wpc
    /\ mtx' = "free"
    /\ ppc' = [ppc EXCEPT ![p] = "idle"]
    /\ UNCHANGED <<fixedVars, countVars, mainVars, stopping, q, it, fileVars, sent, histVars,
                   stopVars, ioBy>>

\* ------------------------------------------------------------ run()
\* std::unique_lock<std::mutex> lk(queue_mtx), at the top of while (true)
WLock ==
    /\ wpc = "start"
    /\ mtx = "free"
    /\ mtx' = "worker"
    /\ wpc' = "pred"
    /\ UNCHANGED <<fixedVars, countVars, mainVars, stopping, q, it, fileVars, prodVars, histVars,
                   stopVars, ioBy>>

\* queue_cv.wait(lk, pred): the predicate is evaluated with the lock held
WPred ==
    /\ wpc = "pred"
    /\ mtx = "worker"
    /\ wpc' = IF stopping \/ q # <<>> THEN "drain" ELSE "presleep"
    /\ UNCHANGED <<fixedVars, countVars, mainVars, mtx, stopping, q, it, fileVars, prodVars, histVars,
                   stopVars, ioBy>>

\* queue_cv.wait(lk): releases the lock and blocks, atomically
WSleep ==
    /\ wpc = "presleep"
    /\ mtx = "worker"
    /\ mtx' = "free"
    /\ wpc' = "sleeping"
    /\ UNCHANGED <<fixedVars, countVars, mainVars, stopping, q, it, fileVars, prodVars, histVars,
                   stopVars, ioBy>>

\* a condition variable may wake without a notification
WSpurious ==
    /\ wpc = "sleeping"
    /\ wpc' = "woken"
    /\ UNCHANGED <<fixedVars, countVars, mainVars, mtx, stopping, q, it, fileVars, prodVars, histVars,
                   stopVars, ioBy>>

\* the woken waiter takes the lock again before the predicate is re-evaluated
WRelock ==
    /\ wpc = "woken"
    /\ mtx = "free"
    /\ mtx' = "worker"
    /\ wpc' = "pred"
    /\ UNCHANGED <<fixedVars, countVars, mainVars, stopping, q, it, fileVars, prodVars, histVars,
                   stopVars, ioBy>>

\* the drain loop throwing the queued items away once stopping is set
WPopDiscardOnStop ==
    /\ wpc = "drain"
    /\ mtx = "worker"
    /\ IF q # <<>> /\ ~stopping
       THEN /\ it' = Head(q)
            /\ q' = Tail(q)
            /\ mtx' = "free"
            /\ wpc' = "shouldRotate"
       ELSE /\ wpc' = "exitcheck"
            /\ q' = <<>>
            /\ UNCHANGED <<it, mtx>>
    /\ UNCHANGED <<fixedVars, countVars, mainVars, stopping, fileVars, prodVars, histVars,
                   stopVars, ioBy>>

\* the drain loop reading q.front() without q.pop()
WPopNoRemove ==
    /\ wpc = "drain"
    /\ mtx = "worker"
    /\ IF q # <<>>
       THEN /\ it' = Head(q)
            /\ mtx' = "free"
            /\ wpc' = "shouldRotate"
            /\ UNCHANGED q
       ELSE /\ wpc' = "exitcheck"
            /\ UNCHANGED <<it, q, mtx>>
    /\ UNCHANGED <<fixedVars, countVars, mainVars, stopping, fileVars, prodVars, histVars,
                   stopVars, ioBy>>

\* the drain loop taking the newest item (q.back()) instead of q.front()
WPopLifo ==
    /\ wpc = "drain"
    /\ mtx = "worker"
    /\ IF q # <<>>
       THEN /\ it' = q[Len(q)]
            /\ q' = SubSeq(q, 1, Len(q) - 1)
            /\ mtx' = "free"
            /\ wpc' = "shouldRotate"
       ELSE /\ wpc' = "exitcheck"
            /\ UNCHANGED <<it, q, mtx>>
    /\ UNCHANGED <<fixedVars, countVars, mainVars, stopping, fileVars, prodVars, histVars,
                   stopVars, ioBy>>

\* while (!q.empty()) { it = q.front(); q.pop(); lk.unlock(); ...
WPop ==
    /\ wpc = "drain"
    /\ mtx = "worker"
    /\ IF q # <<>>
       THEN /\ it' = Head(q)
            /\ q' = Tail(q)
            /\ mtx' = "free"
            /\ wpc' = "shouldRotate"
       ELSE /\ wpc' = "exitcheck"
            /\ UNCHANGED <<it, q, mtx>>
    /\ UNCHANGED <<fixedVars, countVars, mainVars, stopping, fileVars, prodVars, histVars,
                   stopVars, ioBy>>

\* if (rotationPolicy->shouldRotate()): TimeBasedRotationPolicy::shouldRotate
WShouldRotate ==
    /\ wpc = "shouldRotate"
    /\ \E now \in Now :
          /\ clock' = now
          /\ IF now - lastRotation >= Interval
             THEN /\ lastRotation' = now
                  /\ wpc' = "closeA"
             ELSE /\ wpc' = "isOpen"
                  /\ UNCHANGED lastRotation
    /\ ioBy' = Did("worker", "shouldRotate")
    /\ UNCHANGED <<fixedVars, countVars, mainVars, mtx, stopping, q, it, isOpen, currentFile, prodVars,
                   histVars, stopVars>>

\* rotateNow(): if (outFile.is_open()) outFile.close();
RotateClose(from, to) ==
    /\ wpc = from
    /\ isOpen' = FALSE
    /\ ioBy' = IF isOpen
               THEN Did("worker", "close")
               ELSE ioBy
    /\ wpc' = to
    /\ UNCHANGED <<fixedVars, countVars, mainVars, mtx, stopping, q, it, currentFile, clock,
                   lastRotation, prodVars, histVars, stopVars>>

\* rotateNow() throwing when the open fails: nothing in run() catches, the
\* worker thread ends
RotateOpenFatal(from, to) ==
    /\ wpc = from
    /\ \E now \in Now, ok \in BOOLEAN :
          /\ clock' = now
          /\ currentFile' = now
          /\ isOpen' = ok
          /\ wpc' = IF ok THEN to ELSE "exited"
    /\ ioBy' = Did("worker", "nextFileName") \cup Did("worker", "open")
    /\ rotations' = rotations + 1
    /\ UNCHANGED <<constVars, countVars, mainVars, mtx, stopping, q, it, lastRotation, prodVars,
                   histVars, stopVars>>

\* rotateNow(): currentFile = nextFileName(); outFile.open(currentFile, app)
RotateOpen(from, to) ==
    /\ wpc = from
    /\ \E now \in Now, ok \in BOOLEAN :
          /\ clock' = now
          /\ currentFile' = now
          /\ isOpen' = ok
    /\ ioBy' = Did("worker", "nextFileName") \cup Did("worker", "open")
    /\ wpc' = to
    /\ rotations' = rotations + 1
    /\ UNCHANGED <<constVars, countVars, mainVars, mtx, stopping, q, it, lastRotation, prodVars,
                   histVars, stopVars>>

\* the drain loop without its if (!outFile.is_open()) rotateNow();
WIsOpenNoReopen ==
    /\ wpc = "isOpen"
    /\ wpc' = "write"
    /\ UNCHANGED <<fixedVars, countVars, mainVars, mtx, stopping, q, it, fileVars, prodVars, histVars,
                   stopVars, ioBy>>

\* the test of outFile.is_open() the wrong way round
WIsOpenInverted ==
    /\ wpc = "isOpen"
    /\ wpc' = IF isOpen THEN "closeB" ELSE "write"
    /\ UNCHANGED <<fixedVars, countVars, mainVars, mtx, stopping, q, it, fileVars, prodVars, histVars,
                   stopVars, ioBy>>

\* if (!outFile.is_open()) rotateNow();
WIsOpen ==
    /\ wpc = "isOpen"
    /\ wpc' = IF ~isOpen THEN "closeB" ELSE "write"
    /\ UNCHANGED <<fixedVars, countVars, mainVars, mtx, stopping, q, it, fileVars, prodVars, histVars,
                   stopVars, ioBy>>

\* outFile << "[" << timebuf << "] " << it.message << "\n";
\* a stream that is not open takes nothing
WWrite ==
    /\ wpc = "write"
    /\ IF isOpen
       THEN /\ written' = Append(written, [msg |-> it, file |-> currentFile])
            /\ UNCHANGED lost
       ELSE /\ lost' = Append(lost, it)
            /\ UNCHANGED written
    /\ ioBy' = Did("worker", "write")
    /\ it' = NoItem
    /\ wpc' = "relock"
    /\ rotations' = 0
    /\ UNCHANGED <<constVars, countVars, mainVars, mtx, stopping, q, fileVars, prodVars, calls,
                   accepted, dropped, stopVars>>

\* lk.lock(); } at the end of the drain loop body
WDrainLock ==
    /\ wpc = "relock"
    /\ mtx = "free"
    /\ mtx' = "worker"
    /\ wpc' = "drain"
    /\ UNCHANGED <<fixedVars, countVars, mainVars, stopping, q, it, fileVars, prodVars, histVars,
                   stopVars, ioBy>>

\* the exit test without stopping: if (q.empty())
WExitCheckNoStop ==
    /\ wpc = "exitcheck"
    /\ mtx = "worker"
    /\ IF q = <<>>
       THEN /\ wpc' = "closing"
            /\ UNCHANGED mtx
       ELSE /\ wpc' = "start"
            /\ mtx' = "free"
    /\ UNCHANGED <<fixedVars, countVars, mainVars, stopping, q, it, fileVars, prodVars, histVars,
                   stopVars, ioBy>>

\* if (stopping && q.empty()), else the end of the while (true) body,
\* where lk goes out of scope
WExitCheck ==
    /\ wpc = "exitcheck"
    /\ mtx = "worker"
    /\ IF stopping /\ q = <<>>
       THEN /\ wpc' = "closing"
            /\ UNCHANGED mtx
       ELSE /\ wpc' = "start"
            /\ mtx' = "free"
    /\ UNCHANGED <<fixedVars, countVars, mainVars, stopping, q, it, fileVars, prodVars, histVars,
                   stopVars, ioBy>>

\* the exit path returning without flushing and closing the file
WExitNoClose ==
    /\ wpc = "closing"
    /\ mtx = "worker"
    /\ mtx' = "free"
    /\ wpc' = "exited"
    /\ UNCHANGED <<fixedVars, countVars, mainVars, stopping, q, it, fileVars,
                   prodVars, histVars, stopVars, ioBy>>

\* if (outFile.is_open()) { outFile.flush(); outFile.close(); } return;
WExit ==
    /\ wpc = "closing"
    /\ mtx = "worker"
    /\ isOpen' = FALSE
    /\ ioBy' = IF isOpen
               THEN Did("worker", "flush") \cup Did("worker", "close")
               ELSE ioBy
    /\ mtx' = "free"
    /\ wpc' = "exited"
    /\ UNCHANGED <<fixedVars, countVars, mainVars, stopping, q, it, currentFile, clock, lastRotation,
                   prodVars, histVars, stopVars>>

\* ------------------------------------- a count-based RotationPolicy
\* shouldRotate() of a policy that asks for rotation after every K items: it
\* is called once per item and answers true for item K+1, 2K+1, ...
CountShouldRotate == itemsSinceRotation >= RotateEvery

\* nextFileName() of that policy: a name not handed out before
CountNextFileName == currentFile + 1

\* the constructor body with the count-based policy
CtorCount ==
    /\ pcMain = "ctor"
    /\ \E ok \in BOOLEAN :
          /\ currentFile' = CountNextFileName
          /\ isOpen' = ok
    /\ ioBy' = Did("main", "nextFileName") \cup Did("main", "open")
    /\ pcMain' = "live"
    /\ UNCHANGED <<fixedVars, countVars, shutdownRuns, mtx, stopping, q, wpc, it, clock,
                   lastRotation, joinable, threw, prodVars, histVars, stopVars>>

\* if (rotationPolicy->shouldRotate()) with the count-based policy
WShouldRotateCount ==
    /\ wpc = "shouldRotate"
    /\ IF CountShouldRotate
       THEN /\ itemsSinceRotation' = 1
            /\ wpc' = "closeA"
       ELSE /\ itemsSinceRotation' = itemsSinceRotation + 1
            /\ wpc' = "isOpen"
    /\ ioBy' = Did("worker", "shouldRotate")
    /\ UNCHANGED <<fixedVars, mainVars, mtx, stopping, q, it, fileVars, prodVars,
                   histVars, stopVars>>

\* rotateNow() with the count-based policy
RotateOpenCount(from, to) ==
    /\ wpc = from
    /\ \E ok \in BOOLEAN :
          /\ currentFile' = CountNextFileName
          /\ isOpen' = ok
    /\ ioBy' = Did("worker", "nextFileName") \cup Did("worker", "open")
    /\ wpc' = to
    /\ rotations' = rotations + 1
    /\ UNCHANGED <<constVars, countVars, mainVars, mtx, stopping, q, it, clock, lastRotation,
                   prodVars, histVars, stopVars>>

\* ------------------------------------------------ ~AsyncFileLogger()
\* the destructor setting stopping without the lock_guard
DtorLockSkipped ==
    /\ \/ pcMain = "live"
       \/ pcMain = "done" /\ shutdownRuns < MaxShutdownRuns
    /\ pcMain' = "dset"
    /\ UNCHANGED <<fixedVars, countVars, shutdownRuns, joinable, threw, mtx,
                   stopping, q, wpc, it, fileVars, prodVars, histVars, stopVars,
                   ioBy>>

\* { std::lock_guard<std::mutex> lk(queue_mtx);
DtorLock ==
    /\ \/ pcMain = "live"
       \/ pcMain = "done" /\ shutdownRuns < MaxShutdownRuns
    /\ mtx = "free"
    /\ mtx' = "main"
    /\ pcMain' = "dset"
    /\ UNCHANGED <<fixedVars, countVars, shutdownRuns, joinable, threw, stopping, q, wpc, it, fileVars,
                   prodVars, histVars, stopVars, ioBy>>

\*   stopping = true; }
DtorSet ==
    /\ pcMain = "dset"
    /\ mtx = "main"
    /\ stopping' = TRUE
    /\ IF stopping
       THEN UNCHANGED <<acceptedAtStop, pendingAtStop, asleepAtStop>>
       ELSE /\ acceptedAtStop' = Len(accepted)
            /\ pendingAtStop' = (IF it = NoItem THEN 0 ELSE 1) + Len(q)
            /\ asleepAtStop' = (wpc = "sleeping")
    /\ mtx' = "free"
    /\ pcMain' = "dnotify"
    /\ UNCHANGED <<fixedVars, countVars, shutdownRuns, joinable, threw, q, wpc, it, fileVars, prodVars,
                   histVars, ioBy, sentAtShutdown>>

\* the destructor without its notify_one()
DtorNotifyMissing ==
    /\ pcMain = "dnotify"
    /\ pcMain' = "djoin"
    /\ UNCHANGED <<fixedVars, countVars, shutdownRuns, joinable, threw, mtx, stopping, q, wpc, it,
                   fileVars, prodVars, histVars, stopVars, ioBy>>

\* queue_cv.notify_one();
DtorNotify ==
    /\ pcMain = "dnotify"
    /\ wpc' = IF wpc = "sleeping" THEN "woken" ELSE wpc
    /\ pcMain' = "djoin"
    /\ UNCHANGED <<fixedVars, countVars, shutdownRuns, joinable, threw, mtx, stopping, q, it, fileVars,
                   prodVars, histVars, stopVars, ioBy>>

\* worker.join() without the joinable() test: join() on a thread that is
\* not joinable throws std::system_error
DtorJoinUnchecked ==
    /\ pcMain = "djoin"
    /\ IF joinable
       THEN /\ wpc = "exited"
            /\ joinable' = FALSE
            /\ UNCHANGED threw
       ELSE /\ threw' = TRUE
            /\ UNCHANGED joinable
    /\ pcMain' = "done"
    /\ shutdownRuns' = shutdownRuns + 1
    /\ sentAtShutdown' = IF shutdownRuns = 0 THEN sent ELSE sentAtShutdown
    /\ UNCHANGED <<fixedVars, countVars, mtx, stopping, q, wpc, it, fileVars, prodVars,
                   histVars, acceptedAtStop, pendingAtStop, asleepAtStop, ioBy>>

\* worker.detach() in place of worker.join(): the destructor does not wait
DtorJoinNoWait ==
    /\ pcMain = "djoin"
    /\ joinable' = FALSE
    /\ pcMain' = "done"
    /\ shutdownRuns' = shutdownRuns + 1
    /\ sentAtShutdown' = IF shutdownRuns = 0 THEN sent ELSE sentAtShutdown
    /\ UNCHANGED <<fixedVars, countVars, threw, mtx, stopping, q, wpc, it, fileVars, prodVars,
                   histVars, acceptedAtStop, pendingAtStop, asleepAtStop, ioBy>>

\* if (worker.joinable()) worker.join();
DtorJoin ==
    /\ pcMain = "djoin"
    /\ IF joinable
       THEN /\ wpc = "exited"
            /\ joinable' = FALSE
       ELSE UNCHANGED joinable
    /\ pcMain' = "done"
    /\ shutdownRuns' = shutdownRuns + 1
    /\ sentAtShutdown' = IF shutdownRuns = 0 THEN sent ELSE sentAtShutdown
    /\ UNCHANGED <<fixedVars, countVars, threw, mtx, stopping, q, wpc, it, fileVars, prodVars,
                   histVars, acceptedAtStop, pendingAtStop, asleepAtStop, ioBy>>

\* ------------------------------------------------------------------ Next
Producer(p) == LogLock(p) \/ LogPush(p) \/ LogNotify(p)

Worker ==
    \/ WLock \/ WPred \/ WSleep \/ WSpurious \/ WRelock \/ WPop
    \/ WShouldRotate
    \/ RotateClose("closeA", "openA") \/ RotateOpen("openA", "isOpen")
    \/ WIsOpen
    \/ RotateClose("closeB", "openB") \/ RotateOpen("openB", "write")
    \/ WWrite \/ WDrainLock \/ WExitCheck \/ WExit

Main == Ctor \/ DtorLock \/ DtorSet \/ DtorNotify \/ DtorJoin

Next == Main \/ Worker \/ (\E p \in Producers : Producer(p))

Spec == Init /\ [][Next]_vars

\* every thread that can take a step eventually takes it; a condition
\* variable is not obliged to wake spuriously
WorkerStep ==
    \/ WLock \/ WPred \/ WSleep \/ WRelock \/ WPop
    \/ WShouldRotate
    \/ RotateClose("closeA", "openA") \/ RotateOpen("openA", "isOpen")
    \/ WIsOpen
    \/ RotateClose("closeB", "openB") \/ RotateOpen("openB", "write")
    \/ WWrite \/ WDrainLock \/ WExitCheck \/ WExit

\* in the runs checked for liveness one thread submits all the messages
NextFair == Main \/ Worker \/ Producer("t1")

Fairness ==
    /\ WF_vars(WorkerStep)
    /\ WF_vars(Main)
    /\ WF_vars(Producer("t1"))

SpecFair == InitFair /\ [][NextFair]_vars /\ Fairness

\* the steps of the main thread but the decision to destroy the logger
MainStep == Ctor \/ DtorSet \/ DtorNotify \/ DtorJoin

\* every thread is scheduled fairly; the owner of the logger is not obliged
\* ever to destroy it
RunFairness ==
    /\ WF_vars(WorkerStep)
    /\ WF_vars(MainStep)
    /\ WF_vars(Producer("t1"))

SpecFairRun == InitFair /\ [][NextFair]_vars /\ RunFairness

\* the logger with the count-based rotation policy
WorkerCount ==
    \/ WLock \/ WPred \/ WSleep \/ WSpurious \/ WRelock \/ WPop
    \/ WShouldRotateCount
    \/ RotateClose("closeA", "openA") \/ RotateOpenCount("openA", "isOpen")
    \/ WIsOpen
    \/ RotateClose("closeB", "openB") \/ RotateOpenCount("openB", "write")
    \/ WWrite \/ WDrainLock \/ WExitCheck \/ WExit

MainCount == CtorCount \/ DtorLock \/ DtorSet \/ DtorNotify \/ DtorJoin

\* one thread submits all the messages
NextCount == MainCount \/ WorkerCount \/ Producer("t1")

SpecCount == InitCount /\ [][NextCount]_vars

\* ------------------------------------------------------------ EventLoop
\* the tasks pushed so far; task n is the n-th one pushed
Posted == Len(executed) + (IF task = 0 THEN 0 ELSE 1) + Len(tasks)

\* void start() { thread = std::thread([this]() { this->run(); }); }
LoopStart ==
    /\ lpc = "notStarted"
    /\ lpc' = "head"
    /\ loopJoinable' = TRUE
    /\ UNCHANGED <<loggerVars, restVars, stop, tasks, loopMtx, task, postPc, stopPc, stopCalls,
                   executed, postedBeforeStop>>

\* while (!stop): stop is read without the lock while stopLoop() may write
\* it, so the read yields the value written or the one before it
RunHead ==
    /\ lpc = "head"
    /\ \E seen \in {stop, FALSE} :
          lpc' = IF seen THEN "exited" ELSE "lock"
    /\ UNCHANGED <<loggerVars, restVars, stop, tasks, loopMtx, task, loopJoinable, postPc, stopPc,
                   stopCalls, executed, postedBeforeStop>>

\* std::unique_lock<std::mutex> lock(mtx);
RunLock ==
    /\ lpc = "lock"
    /\ loopMtx = "free"
    /\ loopMtx' = "loop"
    /\ lpc' = "wait"
    /\ UNCHANGED <<loggerVars, restVars, stop, tasks, task, loopJoinable, postPc, stopPc, stopCalls,
                   executed, postedBeforeStop>>

\* cv.wait(lock, [this]() { return stop || !tasks.empty(); }): the predicate
\* is tested with the lock held; if it is false the lock is released and the
\* thread blocks, in one step
RunWait ==
    /\ lpc = "wait"
    /\ loopMtx = "loop"
    /\ IF stop \/ tasks # <<>>
       THEN /\ lpc' = "take"
            /\ UNCHANGED loopMtx
       ELSE /\ lpc' = "sleeping"
            /\ loopMtx' = "free"
    /\ UNCHANGED <<loggerVars, restVars, stop, tasks, task, loopJoinable, postPc, stopPc, stopCalls,
                   executed, postedBeforeStop>>

\* a condition variable may wake without a notification
RunSpurious ==
    /\ lpc = "sleeping"
    /\ lpc' = "woken"
    /\ UNCHANGED <<loggerVars, restVars, stop, tasks, loopMtx, task, loopJoinable, postPc, stopPc,
                   stopCalls, executed, postedBeforeStop>>

\* wait() takes the lock again before it tests the predicate
RunRelock ==
    /\ lpc = "woken"
    /\ loopMtx = "free"
    /\ loopMtx' = "loop"
    /\ lpc' = "wait"
    /\ UNCHANGED <<loggerVars, restVars, stop, tasks, task, loopJoinable, postPc, stopPc, stopCalls,
                   executed, postedBeforeStop>>

\* if (stop && tasks.empty()) return;
\* task = std::move(tasks.front()); tasks.pop(); } (the lock is released)
RunTake ==
    /\ lpc = "take"
    /\ loopMtx = "loop"
    /\ IF stop /\ tasks = <<>>
       THEN /\ lpc' = "exited"
            /\ UNCHANGED <<task, tasks>>
       ELSE /\ task' = Head(tasks)
            /\ tasks' = Tail(tasks)
            /\ lpc' = "task"
    /\ loopMtx' = "free"
    /\ UNCHANGED <<loggerVars, restVars, stop, loopJoinable, postPc, stopPc, stopCalls, executed,
                   postedBeforeStop>>

\* task(); executed outside the lock, then back to while (!stop)
RunTask ==
    /\ lpc = "task"
    /\ executed' = Append(executed, task)
    /\ task' = 0
    /\ lpc' = "head"
    /\ UNCHANGED <<loggerVars, restVars, stop, tasks, loopMtx, loopJoinable, postPc, stopPc,
                   stopCalls, postedBeforeStop>>

\* post(): std::lock_guard<std::mutex> lock(mtx);
PostLock ==
    /\ lpc # "notStarted"
    /\ postPc = "idle"
    /\ Posted < MaxTasks
    /\ loopMtx = "free"
    /\ loopMtx' = "poster"
    /\ postPc' = "push"
    /\ UNCHANGED <<loggerVars, restVars, stop, tasks, lpc, task, loopJoinable, stopPc, stopCalls,
                   executed, postedBeforeStop>>

\* tasks.push(std::move(task)); }
PostPush ==
    /\ postPc = "push"
    /\ loopMtx = "poster"
    /\ tasks' = Append(tasks, Posted + 1)
    /\ loopMtx' = "free"
    /\ postPc' = "notify"
    /\ UNCHANGED <<loggerVars, restVars, stop, lpc, task, loopJoinable, stopPc, stopCalls,
                   executed, postedBeforeStop>>

\* cv.notify_one();
PostNotify ==
    /\ postPc = "notify"
    /\ lpc' = IF lpc = "sleeping" THEN "woken" ELSE lpc
    /\ postPc' = "idle"
    /\ UNCHANGED <<loggerVars, restVars, stop, tasks, loopMtx, task, loopJoinable, stopPc,
                   stopCalls, executed, postedBeforeStop>>

\* stopLoop() is called; the tasks whose post() has returned by now are the
\* ones posted before it
StopCall ==
    /\ lpc # "notStarted"
    /\ stopPc = "idle"
    /\ stopCalls < MaxStopCalls
    /\ stopPc' = "lock"
    /\ postedBeforeStop' = IF postedBeforeStop = -1
                           THEN Posted - (IF postPc = "notify" THEN 1 ELSE 0)
                           ELSE postedBeforeStop
    /\ UNCHANGED <<loggerVars, restVars, stop, tasks, loopMtx, lpc, task, loopJoinable, postPc,
                   stopCalls, executed>>

\* { std::lock_guard<std::mutex> lock(mtx);
StopLock ==
    /\ stopPc = "lock"
    /\ loopMtx = "free"
    /\ loopMtx' = "stopper"
    /\ stopPc' = "set"
    /\ UNCHANGED <<loggerVars, restVars, stop, tasks, lpc, task, loopJoinable, postPc, stopCalls,
                   executed, postedBeforeStop>>

\*   stop = true; }
StopSet ==
    /\ stopPc = "set"
    /\ loopMtx = "stopper"
    /\ stop' = TRUE
    /\ loopMtx' = "free"
    /\ stopPc' = "notify"
    /\ UNCHANGED <<loggerVars, restVars, tasks, lpc, task, loopJoinable, postPc, stopCalls,
                   executed, postedBeforeStop>>

\* cv.notify_all();
StopNotify ==
    /\ stopPc = "notify"
    /\ lpc' = IF lpc = "sleeping" THEN "woken" ELSE lpc
    /\ stopPc' = "join"
    /\ UNCHANGED <<loggerVars, restVars, stop, tasks, loopMtx, task, loopJoinable, postPc,
                   stopCalls, executed, postedBeforeStop>>

\* if (thread.joinable()) thread.join();
StopJoin ==
    /\ stopPc = "join"
    /\ IF loopJoinable
       THEN /\ lpc = "exited"
            /\ loopJoinable' = FALSE
       ELSE UNCHANGED loopJoinable
    /\ stopPc' = "idle"
    /\ stopCalls' = stopCalls + 1
    /\ UNCHANGED <<loggerVars, restVars, stop, tasks, loopMtx, lpc, task, postPc, executed,
                   postedBeforeStop>>

Run ==
    \/ RunHead \/ RunLock \/ RunWait \/ RunSpurious \/ RunRelock \/ RunTake
    \/ RunTask

Post == PostLock \/ PostPush \/ PostNotify

StopLoop == StopCall \/ StopLock \/ StopSet \/ StopNotify \/ StopJoin

NextLoop == LoopStart \/ Run \/ Post \/ StopLoop

SpecLoop == Init /\ [][NextLoop]_vars

\* ----------------------------------------------------------- ThreadPool
\* a thread calls pool.post(task)
PoolCall(t) ==
    /\ poolPc[t] = "idle"
    /\ poolSent[t] < MaxPoolPosts
    /\ poolSent' = [poolSent EXCEPT ![t] = @ + 1]
    /\ poolPc' = [poolPc EXCEPT ![t] = "index"]
    /\ UNCHANGED <<outsidePool, nextLoop, loopTasks, poolIdx, poolRead>>

\* loops[nextLoop]: nextLoop is read, no lock is held
PoolIndex(t) ==
    /\ poolPc[t] = "index"
    /\ poolIdx' = [poolIdx EXCEPT ![t] = nextLoop]
    /\ poolPc' = [poolPc EXCEPT ![t] = "post"]
    /\ UNCHANGED <<outsidePool, nextLoop, loopTasks, poolRead, poolSent>>

\* ->post(std::move(task)): EventLoop::post pushes under that loop's mutex
PoolEnqueue(t) ==
    /\ poolPc[t] = "post"
    /\ loopTasks' = [loopTasks EXCEPT ![poolIdx[t]] = Append(@, <<t, poolSent[t]>>)]
    /\ poolPc' = [poolPc EXCEPT ![t] = "readNext"]
    /\ UNCHANGED <<outsidePool, nextLoop, poolIdx, poolRead, poolSent>>

\* nextLoop = (nextLoop + 1) % loops.size(): the read of nextLoop
PoolReadNext(t) ==
    /\ poolPc[t] = "readNext"
    /\ poolRead' = [poolRead EXCEPT ![t] = nextLoop]
    /\ poolPc' = [poolPc EXCEPT ![t] = "writeNext"]
    /\ UNCHANGED <<outsidePool, nextLoop, loopTasks, poolIdx, poolSent>>

\* nextLoop = (nextLoop + 1) % loops.size(): the write of nextLoop
PoolWriteNext(t) ==
    /\ poolPc[t] = "writeNext"
    /\ nextLoop' = (poolRead[t] + 1) % NumLoops
    /\ poolPc' = [poolPc EXCEPT ![t] = "idle"]
    /\ UNCHANGED <<outsidePool, loopTasks, poolIdx, poolRead, poolSent>>

PoolPost(t) ==
    \/ PoolCall(t) \/ PoolIndex(t) \/ PoolEnqueue(t) \/ PoolReadNext(t)
    \/ PoolWriteNext(t)

NextPool == \E t \in Posters : PoolPost(t)

SpecPool == Init /\ [][NextPool]_vars

\* ------------------------------------------------------------ Scheduler
\* the user ids passed to the Scheduler (Alice, Bob)
UserIds == {1, 2}
Hours == 0..MaxHour
\* the participants vectors, duplicates included
ParticipantLists ==
    {<<>>} \cup {<<u>> : u \in UserIds} \cup {<<u, v>> : u, v \in UserIds}

\* static bool overlap(int s1, int e1, int s2, int e2)
overlap(s1, e1, s2, e2) == ~(e1 <= s2 \/ e2 <= s1)

\* bool isUserFree(int userId, int start, int end)
isUserFree(userId, start, end) ==
    /\ userId \in users
    /\ \A k \in DOMAIN calendars[userId] :
          LET m == meetings[calendars[userId][k]]
          IN  ~overlap(start, end, m.start, m.end)

\* how often x occurs in the sequence s
Occurrences(s, x) == Cardinality({k \in DOMAIN s : s[k] = x})

\* std::sort of a calendar by meeting start: any order of the same ids in
\* which the starts do not decrease
SortedByStart(s, ms) ==
    LET ids == {s[k] : k \in DOMAIN s}
    IN  {c \in [DOMAIN s -> ids] :
            /\ \A x \in ids : Occurrences(c, x) = Occurrences(s, x)
            /\ \A k \in DOMAIN c :
                  k + 1 \in DOMAIN c => ms[c[k]].start <= ms[c[k + 1]].start}

\* bool addUser(int userId, const string &name = "")
addUser(userId) ==
    IF userId \in users
    THEN /\ lastOp' = <<"addUser", FALSE>>
         /\ UNCHANGED <<nextMeetingId, users, calendars, meetings>>
    ELSE /\ users' = users \cup {userId}
         /\ calendars' = [u \in users \cup {userId} |->
                             IF u = userId THEN <<>> ELSE calendars[u]]
         /\ lastOp' = <<"addUser", TRUE>>
         /\ UNCHANGED <<nextMeetingId, meetings>>

\* the participants with the organizer pushed back if absent
WithOrganizer(organizerId, participants) ==
    IF \E k \in DOMAIN participants : participants[k] = organizerId
    THEN participants
    ELSE Append(participants, organizerId)

\* the loop of createMeeting that checks existence and availability
Refused(organizerId, start, end, participants) ==
    LET ps == WithOrganizer(organizerId, participants)
    IN  \E k \in DOMAIN ps :
            ps[k] \notin users \/ ~isUserFree(ps[k], start, end)

\* createMeeting that checks the organizer only
createMeetingOrganizerOnly(organizerId, start, end, participants) ==
    LET ps == WithOrganizer(organizerId, participants)
        mid == nextMeetingId
    IN  IF \/ \E k \in DOMAIN ps : ps[k] \notin users
           \/ ~isUserFree(organizerId, start, end)
        THEN /\ lastOp' = <<"createMeeting", -1>>
             /\ UNCHANGED <<nextMeetingId, users, calendars, meetings>>
        ELSE /\ nextMeetingId' = nextMeetingId + 1
             /\ meetings' = [i \in DOMAIN meetings \cup {mid} |->
                                IF i = mid
                                THEN [id |-> mid, organizerId |-> organizerId,
                                      start |-> start, end |-> end,
                                      participants |-> ps]
                                ELSE meetings[i]]
             /\ LET pushed == [u \in users |->
                                  calendars[u] \o
                                  [k \in 1..Occurrences(ps, u) |-> mid]]
                    sorted == UNION {SortedByStart(pushed[u], meetings') : u \in users}
                IN  /\ calendars' \in [users -> sorted]
                    /\ \A u \in users :
                          calendars'[u] \in SortedByStart(pushed[u], meetings')
             /\ lastOp' = <<"createMeeting", mid>>
             /\ UNCHANGED users

\* int createMeeting(int organizerId, int start, int end, vector<int> participants)
createMeeting(organizerId, start, end, participants) ==
    LET ps == WithOrganizer(organizerId, participants)
        mid == nextMeetingId
    IN  IF Refused(organizerId, start, end, participants)
        THEN /\ lastOp' = <<"createMeeting", -1>>
             /\ UNCHANGED <<nextMeetingId, users, calendars, meetings>>
        ELSE /\ nextMeetingId' = nextMeetingId + 1
             /\ meetings' = [i \in DOMAIN meetings \cup {mid} |->
                                IF i = mid
                                THEN [id |-> mid, organizerId |-> organizerId,
                                      start |-> start, end |-> end,
                                      participants |-> ps]
                                ELSE meetings[i]]
             /\ LET pushed == [u \in users |->
                                  calendars[u] \o
                                  [k \in 1..Occurrences(ps, u) |-> mid]]
                    sorted == UNION {SortedByStart(pushed[u], meetings') : u \in users}
                IN  /\ calendars' \in [users -> sorted]
                    /\ \A u \in users :
                          calendars'[u] \in SortedByStart(pushed[u], meetings')
             /\ lastOp' = <<"createMeeting", mid>>
             /\ UNCHANGED users

\* bool cancelMeeting(int meetingId, int requesterId)
cancelMeeting(meetingId, requesterId) ==
    IF meetingId \notin DOMAIN meetings
    THEN /\ lastOp' = <<"cancelMeeting", FALSE>>
         /\ UNCHANGED <<nextMeetingId, users, calendars, meetings>>
    ELSE IF meetings[meetingId].organizerId # requesterId
    THEN /\ lastOp' = <<"cancelMeeting", FALSE>>
         /\ UNCHANGED <<nextMeetingId, users, calendars, meetings>>
    ELSE /\ calendars' = [u \in users |->
                             SelectSeq(calendars[u], LAMBDA i : i # meetingId)]
         /\ meetings' = [i \in DOMAIN meetings \ {meetingId} |-> meetings[i]]
         /\ lastOp' = <<"cancelMeeting", TRUE>>
         /\ UNCHANGED <<nextMeetingId, users>>

AddUserCall ==
    /\ \E userId \in UserIds : addUser(userId)
    /\ UNCHANGED outsideMeet

CreateMeetingCall ==
    /\ nextMeetingId <= MaxMeetings
    /\ \E organizerId \in UserIds, start \in Hours, end \in Hours,
          participants \in ParticipantLists :
          /\ start < end
          /\ createMeeting(organizerId, start, end, participants)
    /\ UNCHANGED outsideMeet

CancelMeetingCall ==
    /\ \E meetingId \in 1..MaxMeetings, requesterId \in UserIds :
          cancelMeeting(meetingId, requesterId)
    /\ UNCHANGED outsideMeet

NextMeet == AddUserCall \/ CreateMeetingCall \/ CancelMeetingCall

SpecMeet == Init /\ [][NextMeet]_vars

\* ----------------------------------------------------------- TextEditor
\* the texts passed to insert and replace
Texts == {<<"a">>, <<"b", "a">>}
Min(a, b) == IF a < b THEN a ELSE b

\* the first n characters of s, and s without them
Take(s, n) == SubSeq(s, 1, n)
Drop(s, n) == SubSeq(s, n + 1, Len(s))

\* std::string::insert, erase, substr and replace throw std::out_of_range
\* when pos > size()
OutOfRange(s, pos) == pos > Len(s)
\* s.insert(pos, t)
strInsert(s, pos, t) == Take(s, pos) \o t \o Drop(s, pos)
\* s.erase(pos, len)
strErase(s, pos, len) == Take(s, pos) \o Drop(s, pos + Min(len, Len(s) - pos))
\* s.substr(pos, len)
strSubstr(s, pos, len) == SubSeq(s, pos + 1, pos + Min(len, Len(s) - pos))
\* s.replace(pos, len, t)
strReplace(s, pos, len, t) ==
    Take(s, pos) \o t \o Drop(s, pos + Min(len, Len(s) - pos))

\* the outcome of a command's execute() or undo(): the content, the command
\* object (its saved text may change) and whether an exception escaped
Outcome(s, c) == [threw |-> FALSE, content |-> s, cmd |-> c]
Thrown(s, c) == [threw |-> TRUE, content |-> s, cmd |-> c]

\* InsertCommand(ed, pos, text)
InsertCommand(pos, text) ==
    [kind |-> "insert", position |-> pos, length |-> 0, text |-> text,
     saved |-> <<>>]

\* DeleteCommand(ed, pos, len): stores the text to be deleted
DeleteCommand(pos, len) ==
    [kind |-> "delete", position |-> pos, length |-> len, text |-> <<>>,
     saved |-> IF pos < Len(content) THEN strSubstr(content, pos, len)
               ELSE <<>>]

\* ReplaceCommand(ed, pos, len, text): stores the text to be replaced
ReplaceCommand(pos, len, text) ==
    [kind |-> "replace", position |-> pos, length |-> len, text |-> text,
     saved |-> IF pos < Len(content) THEN strSubstr(content, pos, len)
               ELSE <<>>]

\* Command::execute() of the three commands on the content s
execute(c, s) ==
    CASE c.kind = "insert" ->
            IF OutOfRange(s, c.position) THEN Thrown(s, c)
            ELSE Outcome(strInsert(s, c.position, c.text), c)
      [] c.kind = "delete" ->
            IF c.position < Len(s)
            THEN Outcome(strErase(s, c.position, c.length),
                         [c EXCEPT !.saved = strSubstr(s, c.position, c.length)])
            ELSE Outcome(s, c)
      [] c.kind = "replace" ->
            IF c.position < Len(s)
            THEN Outcome(strReplace(s, c.position, c.length, c.text),
                         [c EXCEPT !.saved =
                             strSubstr(s, c.position,
                                       Min(c.length, Len(s) - c.position))])
            ELSE Outcome(s, c)

\* Command::undo() with ReplaceCommand replacing length characters
undoCommandOldLength(c, s) ==
    CASE c.kind = "insert" ->
            IF OutOfRange(s, c.position) THEN Thrown(s, c)
            ELSE Outcome(strErase(s, c.position, Len(c.text)), c)
      [] c.kind = "delete" ->
            IF OutOfRange(s, c.position) THEN Thrown(s, c)
            ELSE Outcome(strInsert(s, c.position, c.saved), c)
      [] c.kind = "replace" ->
            IF OutOfRange(s, c.position) THEN Thrown(s, c)
            ELSE Outcome(strReplace(s, c.position, c.length, c.saved), c)

\* Command::undo() of the three commands on the content s
undoCommand(c, s) ==
    CASE c.kind = "insert" ->
            IF OutOfRange(s, c.position) THEN Thrown(s, c)
            ELSE Outcome(strErase(s, c.position, Len(c.text)), c)
      [] c.kind = "delete" ->
            IF OutOfRange(s, c.position) THEN Thrown(s, c)
            ELSE Outcome(strInsert(s, c.position, c.saved), c)
      [] c.kind = "replace" ->
            IF OutOfRange(s, c.position) THEN Thrown(s, c)
            ELSE Outcome(strReplace(s, c.position, Len(c.text), c.saved), c)

\* editLog with one more call; it remembers the last three
Logged(method, result) ==
    LET l == Append(editLog, <<method, result>>)
    IN  IF Len(l) > 3 THEN Drop(l, 1) ELSE l

Pop(stack) == SubSeq(stack, 1, Len(stack) - 1)
Top(stack) == stack[Len(stack)]

\* the content before and after a command
Snap(before, after) == [before |-> before, after |-> after]

\* executeCommand that leaves the redo stack alone
executeCommandNoClear(command, method) ==
    LET r == execute(command, content)
    IN  IF r.threw
        THEN /\ editLog' = Logged(method, "threw")
             /\ UNCHANGED <<content, undoStack, redoStack, undoSnap, redoSnap>>
        ELSE /\ content' = r.content
             /\ undoStack' = Append(undoStack, r.cmd)
             /\ undoSnap' = Append(undoSnap, Snap(content, r.content))
             /\ UNCHANGED <<redoStack, redoSnap>>
             /\ editLog' = Logged(method, "done")

\* void executeCommand(shared_ptr<Command> command)
executeCommand(command, method) ==
    LET r == execute(command, content)
    IN  IF r.threw
        THEN /\ editLog' = Logged(method, "threw")
             /\ UNCHANGED <<content, undoStack, redoStack, undoSnap, redoSnap>>
        ELSE /\ content' = r.content
             /\ undoStack' = Append(undoStack, r.cmd)
             /\ undoSnap' = Append(undoSnap, Snap(content, r.content))
             /\ redoStack' = <<>>
             /\ redoSnap' = <<>>
             /\ editLog' = Logged(method, "done")

\* void insert(size_t position, const string& text)
InsertCall ==
    /\ editCount < MaxEdits
    /\ editCount' = editCount + 1
    /\ \E position \in 0..MaxPos, text \in Texts :
          executeCommand(InsertCommand(position, text), "insert")
    /\ UNCHANGED outsideEdit

\* void deleteText(size_t position, size_t length)
DeleteTextCall ==
    /\ editCount < MaxEdits
    /\ editCount' = editCount + 1
    /\ \E position \in 0..MaxPos, length \in 0..MaxLen :
          executeCommand(DeleteCommand(position, length), "deleteText")
    /\ UNCHANGED outsideEdit

\* void replace(size_t position, size_t length, const string& newText)
ReplaceCall ==
    /\ editCount < MaxEdits
    /\ editCount' = editCount + 1
    /\ \E position \in 0..MaxPos, length \in 0..MaxLen, newText \in Texts :
          executeCommand(ReplaceCommand(position, length, newText), "replace")
    /\ UNCHANGED outsideEdit

\* bool undo()
UndoCall ==
    /\ IF undoStack = <<>>
       THEN /\ editLog' = Logged("undo", "false")
            /\ UNCHANGED <<content, undoStack, redoStack, undoSnap, redoSnap>>
       ELSE LET r == undoCommand(Top(undoStack), content)
            IN  /\ undoStack' = Pop(undoStack)
                /\ undoSnap' = Pop(undoSnap)
                /\ IF r.threw
                   THEN /\ editLog' = Logged("undo", "threw")
                        /\ UNCHANGED <<content, redoStack, redoSnap>>
                   ELSE /\ content' = r.content
                        /\ redoStack' = Append(redoStack, r.cmd)
                        /\ redoSnap' = Append(redoSnap, Top(undoSnap))
                        /\ editLog' = Logged("undo", "true")
    /\ UNCHANGED <<editCount, outsideEdit>>

\* bool redo()
RedoCall ==
    /\ IF redoStack = <<>>
       THEN /\ editLog' = Logged("redo", "false")
            /\ UNCHANGED <<content, undoStack, redoStack, undoSnap, redoSnap>>
       ELSE LET r == execute(Top(redoStack), content)
            IN  /\ redoStack' = Pop(redoStack)
                /\ redoSnap' = Pop(redoSnap)
                /\ IF r.threw
                   THEN /\ editLog' = Logged("redo", "threw")
                        /\ UNCHANGED <<content, undoStack, undoSnap>>
                   ELSE /\ content' = r.content
                        /\ undoStack' = Append(undoStack, r.cmd)
                        /\ undoSnap' = Append(undoSnap, Top(redoSnap))
                        /\ editLog' = Logged("redo", "true")
    /\ UNCHANGED <<editCount, outsideEdit>>

NextEdit == InsertCall \/ DeleteTextCall \/ ReplaceCall \/ UndoCall \/ RedoCall

SpecEdit == Init /\ [][NextEdit]_vars

\* -------------------------------------------------- RoundRobinScheduler
\* the <<burstTime, arrivalTime>> pairs of the demo; a run adds NumProcs
\* processes with pids 1, 2, ... and any of these pairs each
DemoJobs == {<<10, 0>>, <<4, 1>>, <<7, 2>>, <<3, 6>>, <<5, 6>>}

\* the processes main() adds: A, B, C, D, E
DemoWorkload ==
    [pid \in 1..NumProcs |->
        CASE pid = 1 -> <<10, 0>>
          [] pid = 2 -> <<4, 1>>
          [] pid = 3 -> <<7, 2>>
          [] pid = 4 -> <<3, 6>>
          [] OTHER   -> <<5, 6>>]

\* the comparator of addProcess: by arrival time, then by pid
ArrivesBefore(a, b) == IF a[1] # b[1] THEN a[1] < b[1] ELSE a[2] < b[2]

\* futureArrivals.insert(lower_bound(...), {arrivalTime, pid})
InsertSorted(fa, e) ==
    LET before == {k \in DOMAIN fa : ArrivesBefore(fa[k], e)}
        n == IF \E k \in DOMAIN fa : k \notin before
             THEN (CHOOSE k \in DOMAIN fa :
                      k \notin before /\ \A j \in 1..(k - 1) : j \in before) - 1
             ELSE Len(fa)
    IN  SubSeq(fa, 1, n) \o <<e>> \o SubSeq(fa, n + 1, Len(fa))

\* how many entries at the front of fa have arrivalTime <= t
Arrived(fa, t) ==
    IF \E k \in DOMAIN fa : fa[k][1] > t
    THEN (CHOOSE k \in DOMAIN fa :
             fa[k][1] > t /\ \A j \in 1..(k - 1) : fa[j][1] <= t) - 1
    ELSE Len(fa)

\* the pids moveArrivalsToReady() appends to readyQ at time t, in order
ArrivedPids(fa, t) == [k \in 1..Arrived(fa, t) |-> fa[k][2]]

\* processes after moveArrivalsToReady() at time t
MarkReady(ps, fa, t) ==
    [pid \in DOMAIN ps |->
        IF \E k \in 1..Arrived(fa, t) : fa[k][2] = pid
        THEN [ps[pid] EXCEPT !.state = "READY"]
        ELSE ps[pid]]

\* void addProcess(int pid, const string &name, int burstTime, int arrivalTime)
addProcess(pid, burstTime, arrivalTime) ==
    /\ processes' = [p \in DOMAIN processes \cup {pid} |->
                        IF p = pid
                        THEN [burstTime |-> burstTime,
                              remainingTime |-> burstTime,
                              arrivalTime |-> arrivalTime, state |-> "NEW"]
                        ELSE processes[p]]
    /\ futureArrivals' = InsertSorted(futureArrivals, <<arrivalTime, pid>>)

\* main: sched.addProcess(pid, name, burstTime, arrivalTime), before run()
RRAddProcess ==
    /\ rrPc = "adding"
    /\ Len(rrAdded) < NumProcs
    /\ \E job \in DemoJobs :
          /\ addProcess(Len(rrAdded) + 1, job[1], job[2])
          /\ rrAdded' = Append(rrAdded, job)
    /\ UNCHANGED <<outsideRR, rrPc, currentTime, readyQ, timeline>>

\* run(): the initial moveArrivalsToReady()
RRRunStart ==
    /\ rrPc = "adding"
    /\ Len(rrAdded) = NumProcs
    /\ rrPc' = "loop"
    /\ readyQ' = readyQ \o ArrivedPids(futureArrivals, currentTime)
    /\ processes' = MarkReady(processes, futureArrivals, currentTime)
    /\ futureArrivals' = SubSeq(futureArrivals,
                                Arrived(futureArrivals, currentTime) + 1,
                                Len(futureArrivals))
    /\ UNCHANGED <<outsideRR, rrAdded, currentTime, timeline>>

\* run(): readyQ is empty and arrivals are still to come: fast-forward
RRFastForward ==
    /\ rrPc = "loop"
    /\ readyQ = <<>> /\ futureArrivals # <<>>
    /\ LET t == IF currentTime > futureArrivals[1][1] THEN currentTime
                ELSE futureArrivals[1][1]
       IN  /\ currentTime' = t
           /\ readyQ' = ArrivedPids(futureArrivals, t)
           /\ processes' = MarkReady(processes, futureArrivals, t)
           /\ futureArrivals' = SubSeq(futureArrivals,
                                       Arrived(futureArrivals, t) + 1,
                                       Len(futureArrivals))
    /\ UNCHANGED <<outsideRR, rrAdded, rrPc, timeline>>

\* run() that does not put an unfinished process back on the queue
RRSliceNoRequeue ==
    /\ rrPc = "loop"
    /\ readyQ # <<>>
    /\ LET pid == Head(readyQ)
           runFor == Min(timeQuantum, processes[pid].remainingTime)
           end == currentTime + runFor
           left == processes[pid].remainingTime - runFor
           completed == left <= 0
           ran == [processes EXCEPT
                      ![pid].remainingTime = IF completed THEN 0 ELSE left,
                      ![pid].state = IF completed THEN "COMPLETED" ELSE "READY"]
       IN  /\ currentTime' = end
           /\ timeline' = Append(timeline,
                  [pid |-> pid, startTime |-> currentTime, endTime |-> end,
                   ranFor |-> runFor, completed |-> completed])
           /\ processes' = MarkReady(ran, futureArrivals, end)
           /\ readyQ' = Tail(readyQ) \o ArrivedPids(futureArrivals, end)
           /\ futureArrivals' = SubSeq(futureArrivals,
                                       Arrived(futureArrivals, end) + 1,
                                       Len(futureArrivals))
    /\ UNCHANGED <<outsideRR, rrAdded, rrPc>>

\* run() whose requeue happens before the arrivals are moved
RRSliceRequeueFirst ==
    /\ rrPc = "loop"
    /\ readyQ # <<>>
    /\ LET pid == Head(readyQ)
           runFor == Min(timeQuantum, processes[pid].remainingTime)
           end == currentTime + runFor
           left == processes[pid].remainingTime - runFor
           completed == left <= 0
           ran == [processes EXCEPT
                      ![pid].remainingTime = IF completed THEN 0 ELSE left,
                      ![pid].state = IF completed THEN "COMPLETED" ELSE "READY"]
       IN  /\ currentTime' = end
           /\ timeline' = Append(timeline,
                  [pid |-> pid, startTime |-> currentTime, endTime |-> end,
                   ranFor |-> runFor, completed |-> completed])
           /\ processes' = MarkReady(ran, futureArrivals, end)
           /\ readyQ' = Tail(readyQ)
                        \o (IF completed THEN <<>> ELSE <<pid>>)
                        \o ArrivedPids(futureArrivals, end)
           /\ futureArrivals' = SubSeq(futureArrivals,
                                       Arrived(futureArrivals, end) + 1,
                                       Len(futureArrivals))
    /\ UNCHANGED <<outsideRR, rrAdded, rrPc>>

\* run(): one slice: the front process runs for min(timeQuantum, remaining),
\* the slice is recorded, arrivals are moved, the process is requeued
RRSlice ==
    /\ rrPc = "loop"
    /\ readyQ # <<>>
    /\ LET pid == Head(readyQ)
           runFor == Min(timeQuantum, processes[pid].remainingTime)
           end == currentTime + runFor
           left == processes[pid].remainingTime - runFor
           completed == left <= 0
           ran == [processes EXCEPT
                      ![pid].remainingTime = IF completed THEN 0 ELSE left,
                      ![pid].state = IF completed THEN "COMPLETED" ELSE "READY"]
       IN  /\ currentTime' = end
           /\ timeline' = Append(timeline,
                  [pid |-> pid, startTime |-> currentTime, endTime |-> end,
                   ranFor |-> runFor, completed |-> completed])
           /\ processes' = MarkReady(ran, futureArrivals, end)
           /\ readyQ' = Tail(readyQ)
                        \o ArrivedPids(futureArrivals, end)
                        \o (IF completed THEN <<>> ELSE <<pid>>)
           /\ futureArrivals' = SubSeq(futureArrivals,
                                       Arrived(futureArrivals, end) + 1,
                                       Len(futureArrivals))
    /\ UNCHANGED <<outsideRR, rrAdded, rrPc>>

\* run(): readyQ and futureArrivals are both empty: return
RRRunEnd ==
    /\ rrPc = "loop"
    /\ readyQ = <<>> /\ futureArrivals = <<>>
    /\ rrPc' = "done"
    /\ UNCHANGED <<outsideRR, rrAdded, currentTime, readyQ, processes,
                   futureArrivals, timeline>>

NextRR == RRAddProcess \/ RRRunStart \/ RRFastForward \/ RRSlice \/ RRRunEnd

SpecRR == Init /\ [][NextRR]_vars

\* run() is a loop of one thread: it keeps going until it returns
SpecRRFair == Init /\ [][NextRR]_vars /\ WF_vars(NextRR)

\* --------------------------------------------------------- TaskScheduler
\* the worker threads; every critical section on mtx is one step of the model
Workers == {1, 2}
NoTask == [id |-> 0, time |-> 0]

\* taskQueue.top(): a task with the least time (the heap does not order
\* tasks of equal time)
Tops == {t \in taskQueue : \A o \in taskQueue : t.time <= o.time}

\* cv.notify_one(): one of the blocked workers, if there is one, is woken
NotifyOne ==
    IF \E w \in Workers : tsPc[w] \in {"idle", "timed"}
    THEN \E w \in {v \in Workers : tsPc[v] \in {"idle", "timed"}} :
            tsPc' = [tsPc EXCEPT ![w] = IF tsPc[w] = "idle" THEN "wokenIdle"
                                        ELSE "wokenTimed"]
    ELSE UNCHANGED tsPc

\* cv.notify_all(): every blocked worker is woken
NotifyAll ==
    tsPc' = [w \in Workers |->
                CASE tsPc[w] = "idle" -> "wokenIdle"
                  [] tsPc[w] = "timed" -> "wokenTimed"
                  [] OTHER -> tsPc[w]]

\* the loop with its test of the task's time left out
TimedLoopNoWait(w, now) ==
    /\ IF taskQueue # {}
       THEN \E t \in Tops :
               /\ tsTask' = [tsTask EXCEPT ![w] = t]
               /\ taskQueue' = taskQueue \ {t}
               /\ tsLast' = [id |-> t.id, time |-> t.time, at |-> now,
                             least |-> \A o \in taskQueue : t.time <= o.time]
       ELSE UNCHANGED <<tsTask, taskQueue, tsLast>>
    /\ tsPc' = [tsPc EXCEPT ![w] = "run"]
    /\ UNCHANGED tsDeadline

\* while (!taskQueue.empty() && taskQueue.top().time > now) {
\*     cv.wait_until(lock, taskQueue.top().time, [this]() { return stopFlag; });
\*     if (stopFlag) return; now = steady_clock::now(); }
\* if (!taskQueue.empty()) { currentTask = std::move(taskQueue.top().task);
\*                           taskQueue.pop(); }
\* entered with the lock held: the worker blocks in wait_until (the time
\* point is evaluated once, at the call), returns, or pops the top
TimedLoop(w, now) ==
    IF taskQueue # {} /\ \E t \in Tops : t.time > now
    THEN /\ \E t \in Tops : tsDeadline' = [tsDeadline EXCEPT ![w] = t.time]
         /\ tsPc' = [tsPc EXCEPT ![w] = IF stopFlag THEN "exited" ELSE "timed"]
         /\ UNCHANGED <<tsTask, taskQueue, tsLast>>
    ELSE /\ IF taskQueue # {}
            THEN \E t \in Tops :
                    /\ tsTask' = [tsTask EXCEPT ![w] = t]
                    /\ taskQueue' = taskQueue \ {t}
                    /\ tsLast' = [id |-> t.id, time |-> t.time, at |-> now,
                                  least |-> \A o \in taskQueue : t.time <= o.time]
            ELSE UNCHANGED <<tsTask, taskQueue, tsLast>>
         /\ tsPc' = [tsPc EXCEPT ![w] = "run"]
         /\ UNCHANGED tsDeadline

\* std::chrono::steady_clock advances
TsTick ==
    /\ tsClock < MaxClock
    /\ tsClock' = tsClock + 1
    /\ UNCHANGED <<outsideTS, tsBuild, stopFlag, taskQueue, tsWorkerVars,
                   tsClientVars, tsLast>>

\* workerLoop: std::unique_lock<std::mutex> lock(mtx);
\* cv.wait(lock, [this]() { return stopFlag || !taskQueue.empty(); });
\* if (stopFlag && taskQueue.empty()) return;
\* auto now = std::chrono::steady_clock::now(); and the loop on the top's time
\* taken at the top of while (true) or when woken from cv.wait
TsEnter(w) ==
    /\ tsPc[w] \in {"start", "wokenIdle"}
    /\ IF ~stopFlag /\ taskQueue = {}
       THEN /\ tsPc' = [tsPc EXCEPT ![w] = "idle"]
            /\ UNCHANGED <<tsDeadline, tsTask, taskQueue, tsLast>>
       ELSE IF stopFlag /\ taskQueue = {}
            THEN /\ tsPc' = [tsPc EXCEPT ![w] = "exited"]
                 /\ UNCHANGED <<tsDeadline, tsTask, taskQueue, tsLast>>
            ELSE TimedLoop(w, tsClock)
    /\ UNCHANGED <<outsideTS, tsBuild, stopFlag, tsClock, tsClientVars>>

\* a condition variable may wake without a notification
TsSpurious(w) ==
    /\ tsPc[w] \in {"idle", "timed"}
    /\ tsPc' = [tsPc EXCEPT ![w] = IF tsPc[w] = "idle" THEN "wokenIdle"
                                   ELSE "wokenTimed"]
    /\ UNCHANGED <<outsideTS, tsBuild, stopFlag, taskQueue, tsClock,
                   tsDeadline, tsTask, tsClientVars, tsLast>>

\* wait_until(lock, time, pred) is
\* while (!pred()) if (wait_until(lock, time) == timeout) return pred();
\* woken before the time point, the worker takes the lock and tests stopFlag:
\* if it is false it blocks again until the same time point; if it is true
\* wait_until returns and 'if (stopFlag) return;' ends the worker
TsWoken(w) ==
    /\ tsPc[w] = "wokenTimed"
    /\ tsPc' = [tsPc EXCEPT ![w] = IF stopFlag THEN "exited" ELSE "timed"]
    /\ UNCHANGED <<outsideTS, tsBuild, stopFlag, taskQueue, tsClock,
                   tsDeadline, tsTask, tsClientVars, tsLast>>

\* the time point has been reached: wait_until takes the lock and returns
\* pred(); if (stopFlag) return; now = steady_clock::now(); and the loop again
TsTimeout(w) ==
    /\ tsPc[w] \in {"timed", "wokenTimed"}
    /\ tsClock >= tsDeadline[w]
    /\ IF stopFlag
       THEN /\ tsPc' = [tsPc EXCEPT ![w] = "exited"]
            /\ UNCHANGED <<tsDeadline, tsTask, taskQueue, tsLast>>
       ELSE TimedLoop(w, tsClock)
    /\ UNCHANGED <<outsideTS, tsBuild, stopFlag, tsClock, tsClientVars>>

\* if (currentTask) currentTask(); then the next round of while (true)
TsRun(w) ==
    /\ tsPc[w] = "run"
    /\ tsTask' = [tsTask EXCEPT ![w] = NoTask]
    /\ tsPc' = [tsPc EXCEPT ![w] = "start"]
    /\ UNCHANGED <<outsideTS, tsBuild, stopFlag, taskQueue, tsClock,
                   tsDeadline, tsClientVars, tsLast>>

\* schedule(task) and scheduleAfter(task, delay): the time is
\* steady_clock::now(), plus the delay
TsScheduleCall ==
    /\ schedPc = "idle"
    /\ tsScheduled < schedLimit
    /\ \E delay \in 0..(MaxClock - tsClock) : schedTime' = tsClock + delay
    /\ schedPc' = "push"
    /\ UNCHANGED <<outsideTS, tsBuild, stopFlag, taskQueue, tsClock,
                   tsWorkerVars, schedWakeAll, tsScheduled, schedLimit, tsJoined,
                   tsLast>>

\* scheduleAt: { std::unique_lock<std::mutex> lock(mtx);
\*   taskQueue.push({time, std::move(task)}); }
\* the readme's version first sets wakeAll if the queue is empty or the new
\* task is earlier than the top
TsSchedulePush ==
    /\ schedPc = "push"
    /\ taskQueue' = taskQueue \cup {[id |-> tsScheduled + 1, time |-> schedTime]}
    /\ schedWakeAll' = /\ tsBuild = "wakeAll"
                       /\ \/ taskQueue = {}
                          \/ \E t \in Tops : schedTime < t.time
    /\ tsScheduled' = tsScheduled + 1
    /\ schedPc' = "notify"
    /\ UNCHANGED <<outsideTS, tsBuild, stopFlag, tsClock, tsWorkerVars,
                   schedTime, schedLimit, tsJoined, tsLast>>

\* cv.notify_one(); in the readme's version
\* if (wakeAll) cv.notify_all(); else cv.notify_one();
TsScheduleNotify ==
    /\ schedPc = "notify"
    /\ IF schedWakeAll THEN NotifyAll ELSE NotifyOne
    /\ schedPc' = "idle"
    /\ UNCHANGED <<outsideTS, tsBuild, stopFlag, taskQueue, tsClock,
                   tsDeadline, tsTask, schedTime, schedWakeAll,
                   tsScheduled, schedLimit, tsJoined, tsLast>>

\* ~TaskScheduler: { std::unique_lock<std::mutex> lock(mtx); stopFlag = true; }
TsDtorSet ==
    /\ schedPc = "idle"
    /\ stopFlag' = TRUE
    /\ schedPc' = "dtorNotify"
    /\ UNCHANGED <<outsideTS, tsBuild, taskQueue, tsClock,
                   tsWorkerVars, schedTime, schedWakeAll, tsScheduled,
                   schedLimit, tsJoined, tsLast>>

\* the destructor going on to join without notify_all()
TsDtorNotifyMissing ==
    /\ schedPc = "dtorNotify"
    /\ schedPc' = "join"
    /\ UNCHANGED <<outsideTS, tsBuild, stopFlag, taskQueue, tsClock,
                   tsWorkerVars, schedTime, schedWakeAll,
                   tsScheduled, schedLimit, tsJoined, tsLast>>

\* cv.notify_all();
TsDtorNotify ==
    /\ schedPc = "dtorNotify"
    /\ NotifyAll
    /\ schedPc' = "join"
    /\ UNCHANGED <<outsideTS, tsBuild, stopFlag, taskQueue, tsClock,
                   tsDeadline, tsTask, schedTime, schedWakeAll,
                   tsScheduled, schedLimit, tsJoined, tsLast>>

\* for (auto& w : workers) if (w.joinable()) w.join();
TsDtorJoin ==
    /\ schedPc = "join"
    /\ IF tsJoined < Cardinality(Workers)
       THEN /\ tsPc[tsJoined + 1] = "exited"
            /\ tsJoined' = tsJoined + 1
            /\ UNCHANGED schedPc
       ELSE /\ schedPc' = "destroyed"
            /\ UNCHANGED tsJoined
    /\ UNCHANGED <<outsideTS, tsBuild, stopFlag, taskQueue, tsClock,
                   tsWorkerVars, schedTime, schedWakeAll, tsScheduled,
                   schedLimit, tsLast>>

TsWorker(w) ==
    TsEnter(w) \/ TsSpurious(w) \/ TsWoken(w) \/ TsTimeout(w) \/ TsRun(w)

TsClient ==
    \/ TsScheduleCall \/ TsSchedulePush \/ TsScheduleNotify
    \/ TsDtorSet \/ TsDtorNotify \/ TsDtorJoin

NextTS == TsTick \/ TsClient \/ (\E w \in Workers : TsWorker(w))

SpecTS == InitTS /\ [][NextTS]_vars

\* the steps of a worker that are its own; a spurious wake-up is not
TsWorkerStep(w) == TsEnter(w) \/ TsWoken(w) \/ TsTimeout(w) \/ TsRun(w)

\* every thread that can take a step eventually takes one, and every running
\* task finishes
TsFairness ==
    /\ WF_vars(TsClient)
    /\ \A w \in Workers : WF_vars(TsWorkerStep(w))

SpecTSFair == InitTSFair /\ [][NextTS]_vars /\ TsFairness

\* ------------------------------------------------------ SimpleLeaderboard
LbPlayers == {"alice", "bob"}
\* the order of std::set<std::string>
PlayerOrder == <<"alice", "bob">>

\* the set of players stored under score k, empty if there is no such key
Bucket(m, k) == IF k \in DOMAIN m THEN m[k] ELSE {}

\* the map m with the set s under key k
WithBucket(m, k, s) == [x \in DOMAIN m \cup {k} |-> IF x = k THEN s ELSE m[x]]

\* m.erase(k)
WithoutKey(m, k) == [x \in DOMAIN m \ {k} |-> m[x]]

\* the keys in the order of std::map<..., std::greater<>>: descending
RECURSIVE Descending(_)
Descending(keys) ==
    IF keys = {} THEN <<>>
    ELSE LET k == CHOOSE x \in keys : \A y \in keys : x >= y
         IN  <<k>> \o Descending(keys \ {k})

\* the <<player, score>> pairs in the order topN walks them
RECURSIVE Walk(_)
Walk(keys) ==
    IF keys = <<>> THEN <<>>
    ELSE LET k == Head(keys)
             inBucket == SelectSeq(PlayerOrder, LAMBDA pl : pl \in scoreMap[k])
         IN  [i \in DOMAIN inBucket |-> <<inBucket[i], k>>] \o Walk(Tail(keys))

\* std::vector<std::pair<std::string,long long>> topN(int n), n >= 1
topN(n) ==
    LET all == Walk(Descending(DOMAIN scoreMap))
    IN  IF Len(all) <= n THEN all ELSE SubSeq(all, 1, n)

\* the sizes of the buckets the loop of rankOf passes before it breaks at s
RECURSIVE Passed(_, _)
Passed(keys, s) ==
    IF keys = <<>> \/ Head(keys) = s THEN 0
    ELSE Cardinality(scoreMap[Head(keys)]) + Passed(Tail(keys), s)

\* int rankOf(const std::string& player)
rankOf(player) ==
    IF player \notin DOMAIN playerToScore THEN -1
    ELSE 1 + Passed(Descending(DOMAIN scoreMap), playerToScore[player])

\* void addScore(const std::string& player, long long delta)
addScore(player, delta) ==
    LET old == IF player \in DOMAIN playerToScore THEN playerToScore[player]
               ELSE 0
        ns == old + delta
        s == Bucket(scoreMap, old) \ {player}
        erased == IF old # 0
                  THEN IF s = {} THEN WithoutKey(scoreMap, old)
                       ELSE WithBucket(scoreMap, old, s)
                  ELSE scoreMap
    IN  /\ scoreMap' = WithBucket(erased, ns, Bucket(erased, ns) \cup {player})
        /\ playerToScore' = [x \in DOMAIN playerToScore \cup {player} |->
                                IF x = player THEN ns ELSE playerToScore[x]]

\* lb.addScore(player, delta);
LbAddScore ==
    /\ lbCalls < MaxAdds
    /\ lbCalls' = lbCalls + 1
    /\ \E player \in LbPlayers, delta \in (0 - MaxDelta)..MaxDelta :
          addScore(player, delta)
    /\ UNCHANGED outsideLB

NextLB == LbAddScore

SpecLB == Init /\ [][NextLB]_vars

\* ------------------------------------------------------------ TicTacToe
Cells == 0..(boardSize - 1)
Pieces == {"X", "O"}

\* bool Board::isFull()
isFull == \A c \in Cells \X Cells : board[c] # " "

\* bool Game::isPlayerWinner(char piece) on the board b: a column, then a
\* row, then 'return reverseDiagonal;'
isPlayerWinner(b, piece) ==
    LET vertical == \E curCol \in Cells : \A i \in Cells : b[<<i, curCol>>] = piece
        horizontal == \E curRow \in Cells : \A j \in Cells : b[<<curRow, j>>] = piece
        diagonal == \A i \in Cells : b[<<i, i>>] = piece
        reverseDiagonal == \A i \in Cells : b[<<i, boardSize - 1 - i>>] = piece
    IN  IF vertical THEN TRUE
        ELSE IF horizontal THEN TRUE
        ELSE reverseDiagonal

\* startGame(): if (board.isFull() == true) { isWinner = false; break; }
TttTie ==
    /\ tttPc = "loop"
    /\ isFull
    /\ isWinner' = FALSE
    /\ tttPc' = "returned"
    /\ UNCHANGED <<outsideTTT, board, players, winnerName>>

\* startGame(): the front player enters x and y; a taken cell leaves all as
\* it was; otherwise the piece is placed, the player goes to the back and
\* isPlayerWinner decides whether the game ends
TttMove ==
    /\ tttPc = "loop"
    /\ ~isFull
    /\ \E x \in Cells, y \in Cells :
          LET curPlayer == Head(players)
              placed == [board EXCEPT ![<<x, y>>] = curPlayer.piece]
          IN  IF board[<<x, y>>] # " "
              THEN UNCHANGED <<board, players, winnerName, tttPc>>
              ELSE /\ board' = placed
                   /\ players' = Append(Tail(players), curPlayer)
                   /\ IF isPlayerWinner(placed, curPlayer.piece)
                      THEN /\ winnerName' = curPlayer.name
                           /\ tttPc' = "returned"
                      ELSE UNCHANGED <<winnerName, tttPc>>
    /\ UNCHANGED <<outsideTTT, isWinner>>

NextTTT == TttTie \/ TttMove

SpecTTT == Init /\ [][NextTTT]_vars

\* ------------------------------------------------------------ properties
WrittenMsgs == {written[i].msg : i \in DOMAIN written}
LostMsgs == {lost[i] : i \in DOMAIN lost}
Lines == [i \in DOMAIN written |-> written[i].msg]
AcceptedBeforeStop == {accepted[i] : i \in 1..acceptedAtStop}
\* the messages of producer p in a sequence of messages, in order
OfProducer(seq, p) == SelectSeq(seq, LAMBDA m : m[1] = p)
\* <<p,1>>, ..., <<p,n>>
Submissions(p, n) == [i \in 1..n |-> <<p, i>>]

C2_BoundedQueue == Len(q) <= maxQueueSize

C2_Witness ==
    /\ Len(q) = maxQueueSize
    /\ dropped # <<>>

\* C3: a log() call that finds the queue full returns at once, discards its
\* own message, leaves the queue as it was and does not notify the worker
C3_DropNewest ==
    [][\A p \in Producers :
          (ppc[p] = "cs" /\ ppc'[p] # "cs" /\ Len(q) >= maxQueueSize) =>
              /\ q' = q
              /\ accepted' = accepted
              /\ dropped' = Append(dropped, <<p, sent[p]>>)
              /\ ppc'[p] = "idle"
              /\ wpc' = wpc]_vars

C3_Witness ==
    /\ Len(dropped) >= 1
    /\ Len(q) = maxQueueSize
    /\ \A i \in DOMAIN q : q[i] # dropped[1]
    /\ \A p \in Producers : ppc[p] = "idle"

\* every log() call was made by p, none overflowed, and all of them returned
\* before the shutdown sequence set stopping
SingleProducerRun(p) ==
    /\ shutdownRuns >= 1
    /\ \A o \in Producers \ {p} : sent[o] = 0
    /\ dropped = <<>>
    /\ Len(calls) = acceptedAtStop
    /\ sent[p] = acceptedAtStop

ProducersDoneRun ==
    /\ shutdownRuns >= 1
    /\ dropped = <<>>
    /\ Len(calls) = acceptedAtStop
    /\ Total(sent) = acceptedAtStop

C6_ShutdownTerminates ==
    stopping ~> (wpc = "exited" /\ ~joinable /\ shutdownRuns >= 1)

C6_Witness ==
    /\ asleepAtStop
    /\ wpc = "exited"
    /\ ~joinable
    /\ shutdownRuns >= 1

C8_NoIOUnderLock ==
    (\/ wpc \in {"shouldRotate", "closeA", "openA", "closeB", "openB", "write"}
     \/ wpc = "closing" /\ isOpen)
        => mtx # "worker"

C11_SinkOpenAtWrite ==
    /\ accepted # <<>> => <<"main", "open", TRUE>> \in ioBy
    /\ wpc = "write" => isOpen

\* C11 amended: the constructor has tried to open a file before any message
\* is accepted, and the worker comes to stream a message to outFile with no
\* file open only straight from an open() that has just failed
C11_SinkOpenUnlessOpenFailed ==
    [][/\ accepted' # <<>> => <<"main", "open", TRUE>> \in ioBy'
       /\ (wpc' = "write" /\ ~isOpen') =>
              \/ wpc = "openB" /\ ~isOpen
              \/ wpc = "write" /\ ~isOpen]_vars

C11_Witness ==
    /\ Len(written) >= 1
    /\ written[1].msg = accepted[1]
    /\ <<"main", "open", TRUE>> \in ioBy
    /\ <<"worker", "open", FALSE>> \notin ioBy

\* the files that hold a line
Sinks == {written[i].file : i \in DOMAIN written}

\* the lines are the n submitted messages in submission order, the k-th block
\* of RotateEvery lines is in a file of its own, and ceil(n / RotateEvery)
\* files hold them
Partitioned(n) ==
    /\ Lines = calls
    /\ Len(Lines) = n
    /\ \A i, j \in DOMAIN written :
          (written[i].file = written[j].file)
              <=> ((i - 1) \div RotateEvery = (j - 1) \div RotateEvery)
    /\ Cardinality(Sinks) = (n + RotateEvery - 1) \div RotateEvery

OpenFailed ==
    \/ lost # <<>>
    \/ ~isOpen /\ pcMain # "ctor" /\ wpc \notin {"openA", "openB", "exited"}

\* C13: the worker ends only on shutdown, also when opening fails; a message
\* it cannot write is dropped and it goes on to the next; and under fair
\* scheduling, once an open has failed, no step of log() has to wait, the
\* worker still empties the queue it has, and shutdown still completes
C13_BrokenSinkTolerated ==
    /\ [](wpc \in {"closing", "exited"} => stopping)
    /\ [][lost' # lost =>
             /\ lost' = Append(lost, it)
             /\ it' = NoItem
             /\ wpc' = "relock"]_vars
    /\ [](OpenFailed =>
             \A p \in Producers :
                 /\ ppc[p] = "cs" => ENABLED LogPush(p)
                 /\ ppc[p] = "notify" => ENABLED LogNotify(p))
    /\ (OpenFailed /\ q # <<>> /\ wpc # "exited") ~> (q = <<>>)
    /\ (OpenFailed /\ stopping) ~> (wpc = "exited" /\ shutdownRuns >= 1)

C13_Witness ==
    /\ Len(lost) = MaxFairCalls
    /\ written = <<>>
    /\ q = <<>>
    /\ wpc = "exited"
    /\ shutdownRuns >= 1

\* C14: whenever a message has been streamed to outFile while no file was
\* open, which is what a failed open() leads to, the logger has reported it
\* on a diagnostic channel
C14_FailureReported == lost # <<>> => diag # <<>>

\* C15: the counter of dropped messages equals the number of log() calls
\* that found the queue full
C15_DroppedCounted == droppedCount = Len(dropped)

\* while the worker has taken nothing from the queue, the accepted messages
\* are the first maxQueueSize submitted and every later one is dropped
OldestKept ==
    (written = <<>> /\ lost = <<>> /\ it = NoItem) =>
        /\ q = accepted
        /\ accepted = SubSeq(calls, 1, IF Len(calls) < maxQueueSize
                                         THEN Len(calls) ELSE maxQueueSize)
        /\ dropped = SubSeq(calls, maxQueueSize + 1, Len(calls))

State ==
    IF wpc \in {"closing", "exited"} THEN "STOPPED"
    ELSE IF stopping THEN "STOPPING"
    ELSE "RUNNING"

\* C17: RUNNING is left only for STOPPING and only by the destructor setting
\* stopping under the lock; STOPPING is left only for STOPPED and only by the
\* worker finding stopping set and the queue empty under the lock; STOPPED is
\* never left; stopping never goes back to false
C17_Lifecycle ==
    [][/\ (State = "RUNNING" /\ State' # "RUNNING") =>
              /\ State' = "STOPPING"
              /\ pcMain = "dset" /\ mtx = "main"
       /\ (State = "STOPPING" /\ State' # "STOPPING") =>
              /\ State' = "STOPPED"
              /\ wpc = "exitcheck" /\ mtx = "worker"
              /\ stopping /\ q = <<>>
       /\ State = "STOPPED" => State' = "STOPPED"
       /\ stopping => stopping']_vars

C17_Witness ==
    /\ State = "STOPPED"
    /\ shutdownRuns = MaxShutdownRuns
    /\ q # <<>>

\* the messages of the log() calls that began after the shutdown sequence had
\* returned and that log() has dealt with
LateMsgs ==
    {calls[k] : k \in {n \in DOMAIN calls :
                          /\ shutdownRuns >= 1
                          /\ calls[n][2] > sentAtShutdown[calls[n][1]]}}

\* C18: the message of a log() call made after shutdown has completed is
\* dropped as on overflow: it is not in the queue, was not accepted, and
\* nothing of it is written
C18_LateLogDropped ==
    \A m \in LateMsgs :
        /\ \E k \in DOMAIN dropped : dropped[k] = m
        /\ \A k \in DOMAIN q : q[k] # m
        /\ \A k \in DOMAIN accepted : accepted[k] # m
        /\ m \notin WrittenMsgs

\* C19: once the shutdown sequence has set stopping, log() puts no message
\* into the queue
C19_StopStopsIntake ==
    [][stopping => (accepted' = accepted /\ Len(q') <= Len(q))]_vars

\* C20: when the loop thread has exited, every task whose post() had
\* returned before stopLoop() was first called has been executed
C20_GracefulStop ==
    lpc = "exited" =>
        \A n \in 1..postedBeforeStop : \E k \in DOMAIN executed : executed[k] = n

\* the tasks whose push has been done
PoolPushed ==
    {<<t, n>> : t \in Posters, n \in 1..MaxPoolPosts} \ 
        {<<t, n>> \in Posters \X (1..MaxPoolPosts) :
             \/ n > poolSent[t]
             \/ n = poolSent[t] /\ poolPc[t] \in {"index", "post"}}

\* how often a task occurs in the queue of loop l
TimesIn(l, m) == Cardinality({k \in DOMAIN loopTasks[l] : loopTasks[l][k] = m})

\* C21: no two threads are at an access to nextLoop of which one is the
\* write, and every task pushed is in the queue of exactly one loop, once
C21_PostThreadSafe ==
    /\ \A a, b \in Posters :
          (a # b /\ poolPc[a] = "writeNext") =>
              poolPc[b] \notin {"index", "readNext", "writeNext"}
    /\ \A m \in PoolPushed :
          \E l \in DOMAIN loopTasks :
              /\ TimesIn(l, m) = 1
              /\ \A o \in DOMAIN loopTasks \ {l} : TimesIn(o, m) = 0

\* the meetings of two different ids in one user's calendar never overlap
NoOverlapInCalendars ==
    \A u \in users : \A i, j \in DOMAIN calendars[u] :
        calendars[u][i] # calendars[u][j] =>
            ~overlap(meetings[calendars[u][i]].start,
                     meetings[calendars[u][i]].end,
                     meetings[calendars[u][j]].start,
                     meetings[calendars[u][j]].end)

\* every id in a calendar is a stored meeting that lists the user, and ids
\* below nextMeetingId only
CalendarsConsistent ==
    /\ DOMAIN calendars = users
    /\ \A u \in users : \A k \in DOMAIN calendars[u] :
          /\ calendars[u][k] \in DOMAIN meetings
          /\ Occurrences(meetings[calendars[u][k]].participants, u) > 0
    /\ \A i \in DOMAIN meetings : i < nextMeetingId

\* C22: createMeeting returns -1 and changes no calendar, no stored meeting
\* and not the next meeting id when a participant (the organizer included) is
\* unknown or has a meeting overlapping [start, end), that is, a call that
\* changes any of them was for participants all known and free; so no
\* calendar ever holds two overlapping meetings
C22_ConflictCheck ==
    /\ []NoOverlapInCalendars
    /\ []CalendarsConsistent
    /\ [][lastOp'[1] = "createMeeting" =>
            IF lastOp'[2] = -1
            THEN UNCHANGED <<nextMeetingId, users, calendars, meetings>>
            ELSE LET m == meetings'[nextMeetingId]
                 IN  /\ lastOp'[2] = nextMeetingId
                     /\ ~Refused(m.organizerId, m.start, m.end,
                                 m.participants)]_vars

\* every user is known, a meeting is stored, and the last createMeeting was
\* refused: a conflict
C22_Witness ==
    /\ users = UserIds
    /\ lastOp = <<"createMeeting", -1>>
    /\ \E u \in users : Len(calendars[u]) >= 1
    /\ nextMeetingId = 2

\* the calls that create and execute a command
EditMethods == {"insert", "deleteText", "replace"}

\* C23: executing a new command empties the redo stack, also after undo()
\* calls, so a redo() that follows it returns false and leaves the content
\* (and both stacks) unchanged
C23_RedoClearedByNewCommand ==
    /\ [](editLog # <<>> =>
            (Top(editLog) \in EditMethods \X {"done"} => redoStack = <<>>))
    /\ [](\A k \in DOMAIN editLog :
            (/\ k + 1 \in DOMAIN editLog
             /\ editLog[k] \in EditMethods \X {"done"}
             /\ editLog[k + 1][1] = "redo") => editLog[k + 1][2] = "false")
    /\ [][Top(editLog') = <<"redo", "false">> =>
            UNCHANGED <<content, undoStack, redoStack>>]_vars

\* an undo() that undid a command, then a new command, then a redo() that
\* returned false
C23_Witness ==
    /\ Len(editLog) = 3
    /\ editLog[1] = <<"undo", "true">>
    /\ editLog[2] \in EditMethods \X {"done"}
    /\ editLog[3] = <<"redo", "false">>
    /\ content # <<>>

\* the time the first n slices of the timeline gave to pid
RECURSIVE SumRan(_, _)
SumRan(pid, n) ==
    IF n = 0 THEN 0
    ELSE SumRan(pid, n - 1)
         + (IF timeline[n].pid = pid THEN timeline[n].ranFor ELSE 0)

\* a slice of the timeline as prettyPrintTimeline() prints it
Slice(pid, startTime, endTime, ranFor, completed) ==
    [pid |-> pid, startTime |-> startTime, endTime |-> endTime,
     ranFor |-> ranFor, completed |-> completed]

\* the timeline documented below main()
DocumentedTimeline ==
    <<Slice(1, 0, 4, 4, FALSE), Slice(2, 4, 8, 4, TRUE),
      Slice(3, 8, 12, 4, FALSE), Slice(1, 12, 16, 4, FALSE),
      Slice(4, 16, 19, 3, TRUE), Slice(3, 19, 23, 4, FALSE),
      Slice(1, 23, 25, 2, TRUE), Slice(5, 25, 29, 4, FALSE),
      Slice(5, 29, 30, 1, TRUE)>>

\* the timeline run() computes for the demo workload
ComputedTimeline ==
    <<Slice(1, 0, 4, 4, FALSE), Slice(2, 4, 8, 4, TRUE),
      Slice(3, 8, 12, 4, FALSE), Slice(1, 12, 16, 4, FALSE),
      Slice(4, 16, 19, 3, TRUE), Slice(5, 19, 23, 4, FALSE),
      Slice(3, 23, 26, 3, TRUE), Slice(1, 26, 28, 2, TRUE),
      Slice(5, 28, 29, 1, TRUE)>>

\* run() has returned for the workload of main()
DemoDone == rrPc = "done" /\ rrAdded = DemoWorkload

C25_WorkerExit ==
    /\ [][/\ (wpc # "closing" /\ wpc' = "closing") =>
               /\ wpc = "exitcheck" /\ mtx = "worker"
               /\ stopping /\ q = <<>>
          /\ (wpc # "exited" /\ wpc' = "exited") =>
               /\ wpc = "closing" /\ mtx = "worker"
               /\ stopping /\ q = <<>>
               /\ ~isOpen'
               /\ (isOpen => {<<"worker", "flush", FALSE>>,
                              <<"worker", "close", FALSE>>} \subseteq ioBy')
          /\ wpc = "exited" => wpc' = "exited"]_vars
    /\ [](pcMain = "done" => wpc = "exited")

\* the worker has exited after writing a message and flushing the file, and
\* the destructor has returned
C25_Witness ==
    /\ wpc = "exited"
    /\ pcMain = "done"
    /\ written # <<>>
    /\ <<"worker", "flush", FALSE>> \in ioBy

\* the worker is between q.pop() of one item and the lk.lock() that follows
\* its write
BetweenRemovals ==
    wpc \in {"shouldRotate", "closeA", "openA", "isOpen", "closeB", "openB",
             "write", "relock"}

\* C26: the drain removes all queued items within one critical section:
\* between the removal of an item of a batch and the removal of the next one
\* no producer inserts an item into the queue
C26_DrainOneCriticalSection ==
    [][(BetweenRemovals /\ q # <<>>) => Len(q') <= Len(q)]_vars

\* C27: for each dequeued message the worker calls shouldRotate() once, right
\* after taking the message, and performs at most one rotation (one
\* nextFileName() call and one open attempt) before writing it
C27_OneRotationPerItem ==
    /\ [](rotations <= 1)
    /\ [][/\ (wpc # "shouldRotate" /\ wpc' = "shouldRotate") => wpc = "drain"
          /\ (wpc = "shouldRotate" /\ wpc' # "shouldRotate") =>
                wpc' \in {"closeA", "isOpen"}]_vars

\* rotateNow() has closed the stream before it opens the next file: with the
\* one std::ofstream no two sinks are ever open
ClosedBeforeOpen == wpc \in {"openA", "openB"} => ~isOpen

\* the file a rotation opens is not the file it has just closed
RotationOpensAnotherFile ==
    [][(wpc = "openA" /\ wpc' # "openA") => currentFile' # currentFile]_vars

\* a message for which rotateNow() ran is written to the file it opened
WrittenToOpenedFile ==
    [][(wpc = "write" /\ wpc' # "write" /\ rotations >= 1) =>
          written' = Append(written, [msg |-> it, file |-> currentFile])]_vars

\* C28: when shouldRotate() returns true for a message, the current file is
\* closed before the next one is opened, the message is written to the newly
\* opened file and never to the old one, and two sinks are never open at once
C28_RotationOrder ==
    /\ []ClosedBeforeOpen
    /\ RotationOpensAnotherFile
    /\ WrittenToOpenedFile

\* every log() that pushed a message goes on to notify_one(), which wakes the
\* worker if it is blocked in wait(); the worker is never blocked with a
\* message queued unless that notify_one() is about to happen
SubmitSignals ==
    /\ [][\A p \in Producers :
            /\ (ppc[p] = "cs" /\ accepted' # accepted) => ppc'[p] = "notify"
            /\ (ppc[p] = "notify" /\ ppc'[p] # "notify" /\ wpc = "sleeping") =>
                  wpc' = "woken"]_vars
    /\ []((wpc = "sleeping" /\ q # <<>> /\ ~stopping) =>
            \E p \in Producers : ppc[p] = "notify")

\* a message is queued or in the worker's hands
Backlog == q # <<>> \/ it # NoItem

\* every accepted message is in the queue, in the worker's hands, or has been
\* streamed to outFile
NothingVanishes ==
    Len(accepted) = Len(q) + (IF it = NoItem THEN 0 ELSE 1)
                    + Len(written) + Len(lost)

\* C29 as stated: every successful log() signals the worker, and under fair
\* scheduling every message accepted while the worker is alive is eventually
\* dequeued and written to a file
C29_NoLostWakeup ==
    /\ SubmitSignals
    /\ []NothingVanishes
    /\ (wpc # "exited" /\ Backlog) ~> (~Backlog /\ lost = <<>>)

\* C29 amended: every successful log() signals the worker, and under fair
\* scheduling of the worker and the producers every message accepted while
\* the worker is alive is eventually dequeued and streamed to outFile, which
\* puts it in a file if the file is open then
C29_NoLostWakeupStreamed ==
    /\ SubmitSignals
    /\ []NothingVanishes
    /\ (wpc # "exited" /\ Backlog) ~> ~Backlog

\* nobody has asked the logger to stop, every log() call has returned, the
\* worker has written every accepted message and is blocked in wait() again
C29_Witness ==
    /\ ~stopping
    /\ pcMain = "live"
    /\ Len(written) = Len(accepted)
    /\ Len(written) = MaxFairCalls
    /\ wpc = "sleeping"
    /\ \A p \in Producers : ppc[p] = "idle"

\* the worker is at a read of stopping: the wait predicate or the exit test
ReadsStopping == wpc \in {"pred", "exitcheck"}

\* C30: stopping is written only while queue_mtx is held and the worker reads
\* it only while holding queue_mtx, so never does one thread write stopping
\* while another reads it
C30_StoppingLockProtected ==
    /\ [](pcMain = "dset" => mtx = "main")
    /\ [](ReadsStopping => mtx = "worker")
    /\ [](~(pcMain = "dset" /\ ReadsStopping))
    /\ [][stopping' # stopping => (pcMain = "dset" /\ mtx = "main")]_vars

\* the destructor is about to write stopping, holding the lock, while the
\* woken worker waits for the lock to evaluate its predicate
C30_Witness ==
    /\ pcMain = "dset"
    /\ mtx = "main"
    /\ ~stopping
    /\ wpc = "woken"

\* the elements of a sequence
Range(s) == {s[k] : k \in DOMAIN s}
\* the messages that are in the queue, in the worker's hands or in a file
Placed == Range(q) \cup (IF it = NoItem THEN {} ELSE {it}) \cup WrittenMsgs

\* C31: the accepted messages are distinct, and they are the messages in the
\* queue, in the worker's hands, in the files or streamed to outFile while it
\* was not open, each of them there once: so no message is in two places or
\* written twice, and as long as no message met a file that failed to open
\* every accepted message is in exactly one place
C31_Conservation ==
    /\ Cardinality(Range(accepted)) = Len(accepted)
    /\ Placed \cup LostMsgs = Range(accepted)
    /\ NothingVanishes
    /\ lost = <<>> => Placed = Range(accepted)

\* one message is in the queue, one in the worker's hands and one in a file,
\* and every open has succeeded
C31_Witness ==
    /\ Len(accepted) = 3
    /\ Len(q) = 1
    /\ it # NoItem
    /\ Len(written) = 1
    /\ lost = <<>>

\* the worker is blocked in wait_until until a time that has not come, with
\* no wake-up on its way
BlockedUntilLater(w) == tsPc[w] = "timed" /\ tsDeadline[w] > tsClock

\* a queued task whose time has come
DueTasks == {t \in taskQueue : t.time <= tsClock}

\* C32: when scheduleAt has returned and the time of a queued task has come,
\* some worker is running, awake or waiting for a time that has come too: the
\* workers are not all blocked until the time of a later task
C32_NewEarliestHonoured ==
    (~stopFlag /\ schedPc = "idle" /\ DueTasks # {}) =>
        \E w \in Workers : ~BlockedUntilLater(w)

\* C33: the task a worker popped last had a time not later than the now the
\* worker had read, which is not later than the clock, and no task in the
\* queue had an earlier time
C33_NeverEarly ==
    tsLast.id # 0 =>
        /\ tsLast.time <= tsLast.at
        /\ tsLast.at <= tsClock
        /\ tsLast.least

\* a task scheduled for a later time has been popped while another task was
\* left in the queue, after the destructor had set stopFlag
C33_Witness ==
    /\ tsLast.id # 0
    /\ tsLast.time = MaxClock
    /\ taskQueue # {}
    /\ stopFlag

\* C34: once the destructor has set stopFlag and called notify_all(), under
\* fair scheduling every worker returns and the destructor joins them all
C34_DestructionTerminates ==
    (schedPc = "join") ~>
        (schedPc = "destroyed" /\ \A w \in Workers : tsPc[w] = "exited")

\* the destructor has returned while a task was still waiting for its time
C34_Witness ==
    /\ schedPc = "destroyed"
    /\ tsJoined = Cardinality(Workers)
    /\ taskQueue # {}
    /\ tsScheduled = MaxFairSched

\* every slice recorded so far ran for at least 1 and at most timeQuantum
SlicesWithinQuantum ==
    \A k \in DOMAIN timeline :
        /\ timeline[k].ranFor >= 1
        /\ timeline[k].ranFor <= timeQuantum
        /\ timeline[k].endTime = timeline[k].startTime + timeline[k].ranFor

\* every process is COMPLETED with nothing left, and its slices add up to
\* its burst time
AllWorkDone ==
    /\ DOMAIN processes = 1..NumProcs
    /\ \A pid \in DOMAIN processes :
          /\ processes[pid].state = "COMPLETED"
          /\ processes[pid].remainingTime = 0
          /\ SumRan(pid, Len(timeline)) = processes[pid].burstTime

C36_UndoRedoRoundTrip ==
    /\ [](Len(undoSnap) = Len(undoStack) /\ Len(redoSnap) = Len(redoStack))
    /\ [][/\ (Top(editLog')[1] = "undo" /\ undoStack # <<>>) =>
              /\ content' = Top(undoSnap).before
              /\ (Top(editLog')[2] = "true" => Top(redoSnap') = Top(undoSnap))
          /\ (Top(editLog')[1] = "redo" /\ redoStack # <<>>) =>
              /\ content' = Top(redoSnap).after
              /\ Top(editLog')[2] = "true"
          /\ (Top(editLog')[1] = "undo" /\ undoStack = <<>>) =>
              /\ Top(editLog')[2] = "false"
              /\ UNCHANGED <<content, undoStack, redoStack>>
          /\ (Top(editLog')[1] = "redo" /\ redoStack = <<>>) =>
              /\ Top(editLog')[2] = "false"
              /\ UNCHANGED <<content, undoStack, redoStack>>]_vars

\* a replace that changed the content, an undo() and a redo() of it
C36_Witness ==
    /\ editLog = <<<<"replace", "done">>, <<"undo", "true">>, <<"redo", "true">>>>
    /\ Top(undoSnap).before # Top(undoSnap).after
    /\ Len(Top(undoSnap).before) # Len(Top(undoSnap).after)
    /\ content = Top(undoSnap).after

\* the score buckets player p is in
BucketsOf(p) == {k \in DOMAIN scoreMap : p \in scoreMap[k]}

\* C37: every player with a score is in exactly one bucket, the bucket of
\* that score; topN lists no player twice; and rankOf(p) is one plus the
\* number of players with a strictly higher score
C37_LeaderboardConsistent ==
    /\ \A p \in DOMAIN playerToScore : BucketsOf(p) = {playerToScore[p]}
    /\ LET t == topN(MaxAdds + 2)
       IN  \A i, j \in DOMAIN t : t[i][1] = t[j][1] => i = j
    /\ \A p \in DOMAIN playerToScore :
          rankOf(p) = 1 + Cardinality({o \in DOMAIN playerToScore :
                                         playerToScore[o] > playerToScore[p]})

\* the piece fills a whole column, a whole row, the main diagonal or the
\* anti-diagonal of the board b
HasLine(b, piece) ==
    \/ \E col \in Cells : \A i \in Cells : b[<<i, col>>] = piece
    \/ \E row \in Cells : \A j \in Cells : b[<<row, j>>] = piece
    \/ \A i \in Cells : b[<<i, i>>] = piece
    \/ \A i \in Cells : b[<<i, boardSize - 1 - i>>] = piece

\* C38: isPlayerWinner(piece) is true exactly when the piece fills a column,
\* a row or one of the two diagonals; so while startGame is in its loop no
\* piece fills a line, and when it has returned with a winner the piece of
\* that player fills one
C38_WinDetection ==
    /\ \A piece \in Pieces : isPlayerWinner(board, piece) = HasLine(board, piece)
    /\ tttPc = "loop" => \A piece \in Pieces : ~HasLine(board, piece)
    /\ (tttPc = "returned" /\ isWinner) =>
          \E k \in DOMAIN players :
              /\ players[k].name = winnerName
              /\ HasLine(board, players[k].piece)
====
